---- MODULE Spec2Model ----
(***************************************************************************)
(* Invoice totals calculator and PDF layout of the invoicing application.  *)
(*                                                                         *)
(* Numbers.  The program computes in JavaScript numbers; the model carries *)
(* them as exact decimals.  Quantities, unit prices and tax percents are   *)
(* whole numbers.  A discount amount, an amount paid and an amount due are *)
(* counted in hundredths (CENT of them make one), the step of the form's   *)
(* inputs.  Every figure computeTotals returns is counted in units of      *)
(* 1/UNIT, fine enough that each division by 100 of the code is exact.     *)
(* Lengths on the page are counted in hundredths of a point (PT of them    *)
(* make one point), so that the A4 width 595.28pt is a whole number.       *)
(***************************************************************************)
EXTENDS Integers, Sequences, FiniteSets

VARIABLES
    inv,         \* the InvoiceDetail the actions work on
    form,        \* the new-invoice form: lineItems and discount
    totals,      \* what computeTotals(inv) returned, None before the call
    formTotals,  \* the form's derived totals, None before they are derived
    pageW,       \* doc.internal.pageSize.getWidth()
    doc,         \* the document a PDF handler produced, None before
    env,         \* what the page passes to the action bar and what the
                 \* collaborators (profile, branding, logo) answer
    bar,         \* the state of the InvoiceViewActions component
    db,          \* the persisted payment fields of the invoice row
    request,     \* the last request sent to the backend, None before
    view,        \* the state of the invoice detail page
    list         \* the state of a list page: the invoices' or the customers'

vars == <<inv, form, totals, formTotals, pageW, doc, env, bar, db, request, view, list>>

-----------------------------------------------------------------------------
(* Optional values: null / undefined is None, a present value v is Some(v). *)

None == <<>>
Some(v) == <<v>>
Get(o) == o[1]

\* JavaScript truthiness of an optional string: null and "" are falsy.
\* (a variant that tests null alone, for checking what depends on the test)
TruthyStr_NotNull(o) == o # None
TruthyStr(o) == o # None /\ Get(o) # ""

Max(a, b) == IF a >= b THEN a ELSE b
Min(a, b) == IF a <= b THEN a ELSE b

-----------------------------------------------------------------------------
(* Scales and bounds. *)

CENT == 100
UNIT == CENT * 100

MaxItems == 2

Quantities == {-1, 1, 2, 3}
Prices == {-5, 10, 50, 200}
TaxPercents == {0, 10, 20}
\* discount_amount, in hundredths: 0, 10.00 and 1000.00
DiscountAmounts == {0, 10 * CENT, 1000 * CENT}
DiscountTypes == {"value", "percent"}

ItemRows == [quantity : Quantities, unit_price : Prices, tax_percent : TaxPercents]

RECURSIVE SeqsUpTo(_, _)
SeqsUpTo(S, n) ==
    IF n = 0 THEN {<<>>}
    ELSE LET shorter == SeqsUpTo(S, n - 1)
         IN  shorter \cup {Append(s, x) : s \in {t \in shorter : Len(t) = n - 1}, x \in S}

ItemLists == SeqsUpTo(ItemRows, MaxItems)

-----------------------------------------------------------------------------
(* lib/invoices-service.ts: the totals calculator. *)

\* quantity * unit_price of one row, in 1/UNIT.
LineOf(it) == UNIT * it.quantity * it.unit_price

\* items.reduce((s, it) => s + Number(it.quantity) * Number(it.unit_price), 0)
RECURSIVE computeSubtotal(_)
computeSubtotal(items) ==
    IF items = <<>> THEN 0
    ELSE computeSubtotal(SubSeq(items, 1, Len(items) - 1)) + LineOf(items[Len(items)])

\* items.reduce((s, it) => s + line * (Number(it.tax_percent) / 100), 0)
\* (a variant that forgets the percent, for checking what depends on it)
computeTaxTotal_NoPercent(items) == computeSubtotal(items)
RECURSIVE computeTaxTotal(_)
computeTaxTotal(items) ==
    IF items = <<>> THEN 0
    ELSE computeTaxTotal(SubSeq(items, 1, Len(items) - 1))
         + (LineOf(items[Len(items)]) * items[Len(items)].tax_percent) \div 100

\* (subtotal * Number(inv.discount_amount || 0)) / 100 for "percent",
\* Number(inv.discount_amount || 0) otherwise.  subtotal is in 1/UNIT and
\* discount_amount in 1/CENT, so the percent discount is subtotal *
\* discount_amount / (100 * CENT); subtotal is a whole multiple of 100 * CENT,
\* and dividing it first is exact and keeps the product within TLC's integers.
discountOf(subtotal, discount_type, discount_amount) ==
    IF discount_type = "percent"
    THEN (subtotal \div (100 * CENT)) * discount_amount
    ELSE discount_amount * (UNIT \div CENT)

\* Variants of computeTotals, for checking what depends on it: the percent
\* taken of subtotal + tax, the total clamped at 0, the percent amount taken
\* verbatim.
computeTotals_PercentOfGross(i) ==
    LET subtotal == computeSubtotal(i.items)
        taxTotal == computeTaxTotal(i.items)
        discount == discountOf(subtotal + taxTotal, i.discount_type, i.discount_amount)
    IN  [subtotal |-> subtotal, taxTotal |-> taxTotal, discount |-> discount,
         total |-> subtotal + taxTotal - discount]
computeTotals_Clamped(i) ==
    LET subtotal == computeSubtotal(i.items)
        taxTotal == computeTaxTotal(i.items)
        discount == discountOf(subtotal, i.discount_type, i.discount_amount)
    IN  [subtotal |-> subtotal, taxTotal |-> taxTotal, discount |-> discount,
         total |-> Max(0, subtotal + taxTotal - discount)]
computeTotals_PercentVerbatim(i) ==
    LET subtotal == computeSubtotal(i.items)
        taxTotal == computeTaxTotal(i.items)
        discount == i.discount_amount * (UNIT \div CENT)
    IN  [subtotal |-> subtotal, taxTotal |-> taxTotal, discount |-> discount,
         total |-> subtotal + taxTotal - discount]
computeTotals(i) ==
    LET subtotal == computeSubtotal(i.items)
        taxTotal == computeTaxTotal(i.items)
        discount == discountOf(subtotal, i.discount_type, i.discount_amount)
    IN  [subtotal |-> subtotal, taxTotal |-> taxTotal, discount |-> discount,
         total |-> subtotal + taxTotal - discount]

-----------------------------------------------------------------------------
(* app/invoices/new/page.tsx: the totals the form derives from its state. *)

RECURSIVE formSubtotal(_)
formSubtotal(lineItems) ==
    IF lineItems = <<>> THEN 0
    ELSE formSubtotal(SubSeq(lineItems, 1, Len(lineItems) - 1))
         + UNIT * lineItems[Len(lineItems)].quantity * lineItems[Len(lineItems)].unitPrice

RECURSIVE formTaxTotal(_)
formTaxTotal(lineItems) ==
    IF lineItems = <<>> THEN 0
    ELSE formTaxTotal(SubSeq(lineItems, 1, Len(lineItems) - 1))
         + (UNIT * lineItems[Len(lineItems)].quantity * lineItems[Len(lineItems)].unitPrice
                 * lineItems[Len(lineItems)].tax) \div 100

derivedTotals(f) ==
    LET subtotal == formSubtotal(f.lineItems)
        taxTotal == formTaxTotal(f.lineItems)
        discountAmount ==
            IF f.discount.type = "percent"
            THEN (subtotal \div (100 * CENT)) * f.discount.amount
            ELSE f.discount.amount * (UNIT \div CENT)
    IN  [subtotal |-> subtotal, taxTotal |-> taxTotal, discount |-> discountAmount,
         total |-> subtotal + taxTotal - discountAmount]

-----------------------------------------------------------------------------
(* InvoiceViewActions: page geometry of handleDownloadPDF / handlePrintPDF. *)

\* new jsPDF({ unit: "pt", format: "a4" }): one point, in the model's 1/100pt.
PT == 100
pt(n) == n * PT

M == pt(40)   \* margin
G == pt(24)   \* gutter

\* The three-column block: the widths of From / Bill To / Invoice Details for
\* the width `available` = pageW - 2 * M.
\* (variants for checking what depends on it: without the final clamp, and
\* taking from From before Invoice Details)
columnWidths_NoClamp(available) ==
    LET fromW0 == pt(180)
        detailsW0 == pt(200)
        midW0 == available - fromW0 - detailsW0 - 2 * G
        MID_MIN == pt(160)
        deficit == MID_MIN - midW0
        detailsFloor == pt(160)
        canTakeFromDetails == Max(0, detailsW0 - detailsFloor)
        takeFromDetails == Min(deficit, canTakeFromDetails)
        detailsW1 == detailsW0 - takeFromDetails
        midW1 == available - fromW0 - detailsW1 - 2 * G
        remaining == MID_MIN - midW1
        fromFloor == pt(140)
        canTakeFromFrom == Max(0, fromW0 - fromFloor)
        takeFromFrom == Min(remaining, canTakeFromFrom)
        fromW1 == fromW0 - takeFromFrom
        midW2 == available - fromW1 - detailsW1 - 2 * G
    IN  IF midW0 >= MID_MIN
        THEN [fromW |-> fromW0, detailsW |-> detailsW0, midW |-> midW0]
        ELSE IF midW1 >= MID_MIN
        THEN [fromW |-> fromW0, detailsW |-> detailsW1, midW |-> midW1]
        ELSE [fromW |-> fromW1, detailsW |-> detailsW1,
              midW |-> midW2]
columnWidths_FromFirst(available) ==
    LET MID_MIN == pt(160)
        midW0 == available - pt(180) - pt(200) - 2 * G
        takeFromFrom == Min(MID_MIN - midW0, pt(180) - pt(140))
        fromW1 == pt(180) - takeFromFrom
        midW1 == available - fromW1 - pt(200) - 2 * G
        takeFromDetails == Min(MID_MIN - midW1, pt(200) - pt(160))
        detailsW1 == pt(200) - takeFromDetails
        midW2 == available - fromW1 - detailsW1 - 2 * G
    IN  IF midW0 >= MID_MIN
        THEN [fromW |-> pt(180), detailsW |-> pt(200), midW |-> midW0]
        ELSE IF midW1 >= MID_MIN
        THEN [fromW |-> fromW1, detailsW |-> pt(200), midW |-> midW1]
        ELSE [fromW |-> fromW1, detailsW |-> detailsW1,
              midW |-> IF midW2 < MID_MIN THEN Max(pt(120), midW2) ELSE midW2]
columnWidths(available) ==
    LET fromW0 == pt(180)
        detailsW0 == pt(200)
        midW0 == available - fromW0 - detailsW0 - 2 * G
        MID_MIN == pt(160)
        \* if (midW < MID_MIN): take from Invoice Details first
        deficit == MID_MIN - midW0
        detailsFloor == pt(160)
        canTakeFromDetails == Max(0, detailsW0 - detailsFloor)
        takeFromDetails == Min(deficit, canTakeFromDetails)
        detailsW1 == detailsW0 - takeFromDetails
        midW1 == available - fromW0 - detailsW1 - 2 * G
        \* if (midW < MID_MIN) still: take from From
        remaining == MID_MIN - midW1
        fromFloor == pt(140)
        canTakeFromFrom == Max(0, fromW0 - fromFloor)
        takeFromFrom == Min(remaining, canTakeFromFrom)
        fromW1 == fromW0 - takeFromFrom
        midW2 == available - fromW1 - detailsW1 - 2 * G
    IN  IF midW0 >= MID_MIN
        THEN [fromW |-> fromW0, detailsW |-> detailsW0, midW |-> midW0]
        ELSE IF midW1 >= MID_MIN
        THEN [fromW |-> fromW0, detailsW |-> detailsW1, midW |-> midW1]
        ELSE [fromW |-> fromW1, detailsW |-> detailsW1,
              \* if (midW < MID_MIN) midW = Math.max(120, midW)
              midW |-> IF midW2 < MID_MIN THEN Max(pt(120), midW2) ELSE midW2]

-----------------------------------------------------------------------------
(* InvoiceViewActions: the totals card and the Notes / Terms blocks. *)

\* let cardH = 110 + (totals.discount > 0 ? 14 : 0); if (hasPayment) { .. }
\* (variants for checking what depends on it: without the payment lines, and
\* without the extra spacing)
cardHeight_Static(t, i) == pt(110) + (IF t.discount > 0 THEN pt(14) ELSE 0)
cardHeight_NoSpacing(t, i) ==
    pt(110) + (IF t.discount > 0 THEN pt(14) ELSE 0)
            + (IF i.amount_paid > 0 THEN pt(14) ELSE 0)
            + (IF i.amount_due > 0 THEN pt(14) ELSE 0)
cardHeight(t, i) ==
    LET hasPayment == i.amount_paid > 0 \/ i.amount_due > 0
        cardH0 == pt(110) + (IF t.discount > 0 THEN pt(14) ELSE 0)
    IN  IF hasPayment
        THEN cardH0 + (IF i.amount_paid > 0 THEN pt(14) ELSE 0)
                    + (IF i.amount_due > 0 THEN pt(14) ELSE 0)
                    + pt(4)   \* extra spacing
        ELSE cardH0

\* One doc.text(label, labelX, y) of the card (its value is drawn at the same y).
CardLine(label, y) == [label |-> label, y |-> y]

\* The totals card of handleDownloadPDF and handlePrintPDF of the current
\* component (their two copies are the same text): the rectangle, the lines
\* drawn in it, and ty as the Notes / Terms code finds it.
totalsCard(i, afterTableY) ==
    LET t == computeTotals(i)
        cardH == cardHeight(t, i)
        cardY == afterTableY + pt(18)
        tySubtotal == cardY + pt(16)
        tyTax == tySubtotal + pt(16)
        tyDiscount == tyTax + pt(16)
        tyRule == IF t.discount > 0 THEN tyDiscount + pt(16) ELSE tyDiscount
        tyTotal == tyRule + pt(18)
        tyPaid == tyTotal + pt(20)
        tyDue == IF i.amount_paid > 0 THEN tyPaid + pt(16) ELSE tyPaid
        tyMethod == IF i.amount_due > 0 THEN tyDue + pt(16) ELSE tyDue
    IN  [cardY |-> cardY, cardH |-> cardH, ty |-> tyMethod,
         lines |->
            <<CardLine("Subtotal", tySubtotal), CardLine("Tax", tyTax)>>
            \o (IF t.discount > 0 THEN <<CardLine("Discount", tyDiscount)>> ELSE <<>>)
            \o <<CardLine("Total", tyTotal)>>
            \o (IF i.amount_paid > 0 THEN <<CardLine("Amount Paid", tyPaid)>> ELSE <<>>)
            \o (IF i.amount_due > 0 THEN <<CardLine("Amount Due", tyDue)>> ELSE <<>>)
            \o (IF TruthyStr(i.payment_method)
                THEN <<CardLine("Payment Method", tyMethod)>> ELSE <<>>)]

\* The totals card of the earlier copy of the component, which knows no
\* payment fields: const cardH = 110 + (totals.discount > 0 ? 14 : 0), and ty
\* stays at the Total line.
totalsCard_v1(i, afterTableY) ==
    LET t == computeTotals(i)
        cardY == afterTableY + pt(18)
        tySubtotal == cardY + pt(16)
        tyTax == tySubtotal + pt(16)
        tyDiscount == tyTax + pt(16)
        tyRule == IF t.discount > 0 THEN tyDiscount + pt(16) ELSE tyDiscount
        tyTotal == tyRule + pt(18)
    IN  [cardY |-> cardY,
         cardH |-> pt(110) + (IF t.discount > 0 THEN pt(14) ELSE 0),
         ty |-> tyTotal,
         lines |->
            <<CardLine("Subtotal", tySubtotal), CardLine("Tax", tyTax)>>
            \o (IF t.discount > 0 THEN <<CardLine("Discount", tyDiscount)>> ELSE <<>>)
            \o <<CardLine("Total", tyTotal)>>]

\* One doc.text of the Notes / Terms section: a heading or a wrapped body.
Block(label, kind, y) == [label |-> label, kind |-> kind, y |-> y]

\* let ny = Math.max(ty + 28, afterTableY + 28)
notesStart(ty, afterTableY) == Max(ty + pt(28), afterTableY + pt(28))

\* if (notes) { heading; ny += 14; body; ny += notesLines.length * 13 + 6 }
\* if (terms) { heading; ny += 14; body }
\* notesLines is the length of doc.splitTextToSize(notes, pageW - 2 * M).
notesTerms(i, ny, notesLines) ==
    LET nyTerms == IF TruthyStr(i.notes) THEN ny + pt(14) + notesLines * pt(13) + pt(6)
                   ELSE ny
    IN  (IF TruthyStr(i.notes)
         THEN <<Block("Notes", "heading", ny), Block("Notes", "body", ny + pt(14))>>
         ELSE <<>>)
        \o (IF TruthyStr(i.terms)
            THEN <<Block("Terms & Conditions", "heading", nyTerms),
                   Block("Terms & Conditions", "body", nyTerms + pt(14))>>
            ELSE <<>>)

-----------------------------------------------------------------------------
(* InvoiceViewActions: the From block.  A text field that is absent (null, *)
(* undefined) is carried as "", which || and if (..) treat as they treat   *)
(* an absent one.                                                          *)

\* a || b
OrElse(a, b) == IF a # "" THEN a ELSE b

\* (prof as any)?.field of the profile prof, which may be null
ProfileField(prof, field) == IF prof = None THEN "" ELSE Get(prof)[field]

\* One entry of lines: the text pushed, the literal it is prefixed with, and
\* the sender field it was made from.
FromLine(field, prefix, text) == [field |-> field, prefix |-> prefix, text |-> text]

\* The entries of ls whose text is not empty: if (x) lines.push(..)
RECURSIVE NonEmptyLines(_)
NonEmptyLines(ls) ==
    IF ls = <<>> THEN <<>>
    ELSE IF Head(ls).text # "" THEN <<Head(ls)>> \o NonEmptyLines(Tail(ls))
    ELSE NonEmptyLines(Tail(ls))

\* Variants of buildFromLines, for checking what depends on it: the profile's
\* name taken before the snapshot's, and the branding's email taken first.
buildFromLines_ProfileNameFirst(i, prof, branding) ==
    LET fromSnap == i.from_snapshot
        acctType == IF prof = None THEN "individual" ELSE Get(prof).accountType
        senderName ==
            OrElse(branding.companyName,
            OrElse(IF acctType = "company" THEN ProfileField(prof, "companyName")
                   ELSE ProfileField(prof, "fullName"),
            OrElse(IF fromSnap.type = "company" THEN fromSnap.company_name
                   ELSE fromSnap.full_name,
                   "Your Company")))
    IN  <<FromLine("name", "", senderName)>>
buildFromLines_BrandingEmailFirst(i, prof, branding) ==
    LET fromSnap == i.from_snapshot
        acctType == IF prof = None THEN "individual" ELSE Get(prof).accountType
        senderName ==
            OrElse(branding.companyName,
            OrElse(IF fromSnap.type = "company" THEN fromSnap.company_name
                   ELSE fromSnap.full_name,
            OrElse(IF acctType = "company" THEN ProfileField(prof, "companyName")
                   ELSE ProfileField(prof, "fullName"),
                   "Your Company")))
        senderEmail == OrElse(branding.email,
                       OrElse(fromSnap.email, ProfileField(prof, "email")))
        addr1 == OrElse(branding.address1,
                 OrElse(fromSnap.address_line_1, ProfileField(prof, "address_line_1")))
        addr2 == OrElse(branding.address2,
                 OrElse(fromSnap.address_line_2, ProfileField(prof, "address_line_2")))
        phone == OrElse(branding.phone, OrElse(fromSnap.phone, ProfileField(prof, "phone")))
        website == OrElse(branding.website, ProfileField(prof, "website"))
    IN  <<FromLine("name", "", senderName)>>
        \o NonEmptyLines(<<FromLine("email", "", senderEmail),
                           FromLine("address1", "", addr1),
                           FromLine("address2", "", addr2),
                           FromLine("phone", "", phone),
                           FromLine("website", "", website)>>)

\* buildFromLines(inv, prof, branding) of the current component.  lines always
\* holds the name, so the dash of its return is never taken.
buildFromLines(i, prof, branding) ==
    LET fromSnap == i.from_snapshot
        acctType == IF prof = None THEN "individual" ELSE Get(prof).accountType
        senderName ==
            OrElse(branding.companyName,
            OrElse(IF fromSnap.type = "company" THEN fromSnap.company_name
                   ELSE fromSnap.full_name,
            OrElse(IF acctType = "company" THEN ProfileField(prof, "companyName")
                   ELSE ProfileField(prof, "fullName"),
                   "Your Company")))
        senderEmail == OrElse(fromSnap.email,
                       OrElse(ProfileField(prof, "email"), branding.email))
        addr1 == OrElse(branding.address1,
                 OrElse(fromSnap.address_line_1, ProfileField(prof, "address_line_1")))
        addr2 == OrElse(branding.address2,
                 OrElse(fromSnap.address_line_2, ProfileField(prof, "address_line_2")))
        phone == OrElse(branding.phone, OrElse(fromSnap.phone, ProfileField(prof, "phone")))
        registrationId == OrElse(fromSnap.registration_id, ProfileField(prof, "registrationId"))
        vatNumber == OrElse(fromSnap.vat_number, ProfileField(prof, "vatNumber"))
        bankName == ProfileField(prof, "bank_name")
        bankAcc == ProfileField(prof, "bank_acc_num")
        website == OrElse(branding.website, ProfileField(prof, "website"))
    IN  <<FromLine("name", "", senderName)>>
        \o NonEmptyLines(<<FromLine("email", "", senderEmail),
                           FromLine("registrationId", "Reg: ", registrationId),
                           FromLine("vatNumber", "VAT: ", vatNumber),
                           FromLine("address1", "", addr1),
                           FromLine("address2", "", addr2),
                           FromLine("phone", "", phone),
                           FromLine("bankName", "Bank: ", bankName),
                           FromLine("bankAcc", "Account: ", bankAcc),
                           FromLine("website", "", website)>>)

\* buildFromLines of the earlier copy of the component: the same merge without
\* the registration and VAT lines.
buildFromLines_v1(i, prof, branding) ==
    LET fromSnap == i.from_snapshot
        acctType == IF prof = None THEN "individual" ELSE Get(prof).accountType
        senderName ==
            OrElse(branding.companyName,
            OrElse(IF fromSnap.type = "company" THEN fromSnap.company_name
                   ELSE fromSnap.full_name,
            OrElse(IF acctType = "company" THEN ProfileField(prof, "companyName")
                   ELSE ProfileField(prof, "fullName"),
                   "Your Company")))
        senderEmail == OrElse(fromSnap.email,
                       OrElse(ProfileField(prof, "email"), branding.email))
        addr1 == OrElse(branding.address1,
                 OrElse(fromSnap.address_line_1, ProfileField(prof, "address_line_1")))
        addr2 == OrElse(branding.address2,
                 OrElse(fromSnap.address_line_2, ProfileField(prof, "address_line_2")))
        phone == OrElse(branding.phone, OrElse(fromSnap.phone, ProfileField(prof, "phone")))
        bankName == ProfileField(prof, "bank_name")
        bankAcc == ProfileField(prof, "bank_acc_num")
        website == OrElse(branding.website, ProfileField(prof, "website"))
    IN  <<FromLine("name", "", senderName)>>
        \o NonEmptyLines(<<FromLine("email", "", senderEmail),
                           FromLine("address1", "", addr1),
                           FromLine("address2", "", addr2),
                           FromLine("phone", "", phone),
                           FromLine("bankName", "Bank: ", bankName),
                           FromLine("bankAcc", "Account: ", bankAcc),
                           FromLine("website", "", website)>>)

-----------------------------------------------------------------------------
(* InvoiceViewActions: the items table handed to autoTable. *)

\* a ?? d and a || d on an optional string
Nullish(o, d) == IF o = None THEN d ELSE Get(o)
Falsy(o, d) == IF TruthyStr(o) THEN Get(o) ELSE d

\* money(n, inv.currency): n, in 1/UNIT, rounded half away from zero to the
\* two decimals of the currency format, in 1/CENT.
money(n) ==
    LET q == UNIT \div CENT
        cents == IF n >= 0 THEN (2 * n + q) \div (2 * q) ELSE 0 - ((2 * (0 - n) + q) \div (2 * q))
    IN  [style |-> "currency", cents |-> cents]

\* qty * unit + qty * unit * (tax_percent / 100), in 1/UNIT
lineTotal(it) == LineOf(it) + (LineOf(it) * it.tax_percent) \div 100

\* bodyRows of handleDownloadPDF (both copies of the component)
bodyRows_download(i) ==
    [k \in 1..Len(i.items) |->
        [item |-> Nullish(i.items[k].item, ""),
         description |-> Nullish(i.items[k].description, ""),
         qty |-> <<"String", i.items[k].quantity>>,
         price |-> money(UNIT * i.items[k].unit_price),
         tax |-> <<i.items[k].tax_percent, "%">>,
         total |-> money(lineTotal(i.items[k]))]]

\* bodyRows of handlePrintPDF ("--" stands for its em dash)
bodyRows_print(i) ==
    [k \in 1..Len(i.items) |->
        [item |-> Falsy(i.items[k].item, "--"),
         description |-> Falsy(i.items[k].description, ""),
         qty |-> <<"String", i.items[k].quantity>>,
         price |-> money(UNIT * i.items[k].unit_price),
         tax |-> <<i.items[k].tax_percent, "%">>,
         total |-> money(lineTotal(i.items[k]))]]

\* styles.fontSize and columnStyles[0..5].cellWidth of the autoTable call; a
\* column without a cellWidth (sized by autoTable) is None.
tableStyles_download ==
    [fontSize |-> 10,
     cellWidth |-> <<None, None, Some(pt(50)), Some(pt(70)), Some(pt(50)), Some(pt(80))>>]
tableStyles_print ==
    [fontSize |-> 9,
     cellWidth |-> <<Some(pt(120)), Some(pt(140)), Some(pt(50)), Some(pt(80)),
                     Some(pt(50)), Some(pt(80))>>]

\* The sender name of the header band.  The conditional takes in the whole of
\* fromSnap?.full_name || (...) as its else branch, so a snapshot of type
\* company gives its company_name, empty or not.
headerSenderName(i, prof, branding) ==
    LET fromSnap == i.from_snapshot
        acctType == IF prof = None THEN "individual" ELSE Get(prof).accountType
        fallbackName ==
            IF fromSnap.type = "company" THEN fromSnap.company_name
            ELSE OrElse(fromSnap.full_name,
                        IF acctType = "company" THEN ProfileField(prof, "companyName")
                        ELSE ProfileField(prof, "fullName"))
    IN  OrElse(branding.companyName, OrElse(fallbackName, "Your Company"))

\* fromName of the detail page, the heading of its From card: the same
\* conditional over the snapshot and safeProfile, without branding and
\* without a default.
fromName(i, profile) ==
    LET from == i.from_snapshot
        accountType == IF profile = None THEN "individual" ELSE Get(profile).accountType
    IN  IF from.type = "company" THEN from.company_name
        ELSE OrElse(from.full_name,
                    IF accountType = "company" THEN ProfileField(profile, "companyName")
                    ELSE ProfileField(profile, "fullName"))

\* What a handler has drawn when it reaches its exit.  prof and branding are
\* the profile and the branding the handler works with, logo whether
\* doc.addImage drew the logo.
Document(routine, card, afterTableY, notesLines, exit) ==
    LET available == pageW - 2 * M
        w == columnWidths(available)
        ny == notesStart(card.ty, afterTableY)
        prof == IF env.profile # None THEN env.profile ELSE env.fetchProfile
    IN  [routine |-> routine, available |-> available,
         fromW |-> w.fromW, midW |-> w.midW, detailsW |-> w.detailsW,
         fromX |-> M, midX |-> M + w.fromW + G, detailsX |-> M + w.fromW + G + w.midW + G,
         logo |-> env.logo = "image",
         senderName |-> headerSenderName(inv, prof, env.branding),
         fromLines |-> IF routine = "download_v1"
                       THEN buildFromLines_v1(inv, prof, env.branding)
                       ELSE buildFromLines(inv, prof, env.branding),
         bodyRows |-> IF routine = "print" THEN bodyRows_print(inv)
                      ELSE bodyRows_download(inv),
         table |-> IF routine = "print" THEN tableStyles_print ELSE tableStyles_download,
         afterTableY |-> afterTableY,
         cardY |-> card.cardY, cardH |-> card.cardH, card |-> card.lines,
         ny |-> ny, blocks |-> notesTerms(inv, ny, notesLines),
         exit |-> exit]

-----------------------------------------------------------------------------
(* The records the actions work on. *)

\* A4 in a jsPDF document of unit "pt": 595.28pt, in 1/PT.
A4W == 59528

\* inv.from_snapshot ?? {}, and a branding of {} (fetchBranding() ?? {}): every
\* field absent.
NoSnapshot ==
    [type |-> "", company_name |-> "", full_name |-> "", email |-> "",
     address_line_1 |-> "", address_line_2 |-> "", phone |-> "",
     registration_id |-> "", vat_number |-> ""]
NoBranding ==
    [companyName |-> "", email |-> "", address1 |-> "", address2 |-> "",
     phone |-> "", website |-> ""]

\* A profile as fetchProfile returns it: absent columns are "".
BlankProfile ==
    [accountType |-> "company", companyName |-> "", fullName |-> "", email |-> "",
     address_line_1 |-> "", address_line_2 |-> "", phone |-> "",
     registrationId |-> "", vatNumber |-> "", bank_name |-> "", bank_acc_num |-> "",
     website |-> ""]
SampleProfile ==
    [BlankProfile EXCEPT !.companyName = "Acme Ltd", !.fullName = "Ann Lee",
                         !.email = "acme@example.com"]

InvoiceOf(items, dtype, damount) ==
    [items |-> items, discount_type |-> dtype, discount_amount |-> damount,
     status |-> "unpaid",
     amount_paid |-> 0, amount_due |-> 0, payment_method |-> None,
     from_snapshot |-> NoSnapshot,
     notes |-> None, terms |-> None]

\* The form state whose rows and discount are those of InvoiceOf(items, ..):
\* doCreateUnpaid maps quantity, unitPrice, tax to quantity, unit_price,
\* tax_percent.
\* No customer selected and the bill-to fields as useState leaves them.
BlankClientInfo ==
    [type |-> "company", companyName |-> "", fullName |-> "", email |-> ""]

FormOf(items, dtype, damount) ==
    [lineItems |-> [k \in 1..Len(items) |->
                       [quantity |-> items[k].quantity,
                        unitPrice |-> items[k].unit_price,
                        tax |-> items[k].tax_percent]],
     discount |-> [type |-> dtype, amount |-> damount],
     selectedCustomer |-> None,
     clientInfo |-> BlankClientInfo]

\* The page passes invoice, profile and logoSrc; branding is absent; the logo
\* is fetched and drawn.
PageEnv ==
    [invoiceProp |-> TRUE, getInvoice |-> TRUE,
     profile |-> Some(SampleProfile), fetchProfile |-> Some(SampleProfile),
     branding |-> NoBranding, logo |-> "image"]

\* The component state as its useState calls leave it for the invoice prop i
\* (None when the page passed none); running names the handler in flight,
\* inFlight counts the handlers between their setBusy(true) and their finally,
\* and toast is the last toast.
BarOf(i) ==
    [busy |-> FALSE, running |-> "", inFlight |-> 0,
     toast |-> [title |-> "", description |-> "", variant |-> ""],
     isPaymentDialogOpen |-> FALSE,
     paymentMethod |-> IF i = None THEN None
                       ELSE IF TruthyStr(Get(i).payment_method)
                            THEN Get(i).payment_method ELSE None,
     amountPaid |-> IF i = None THEN 0 ELSE Get(i).amount_paid,
     amountPaidError |-> ""]

\* The persisted payment fields of the invoice i.
RowOf(i) ==
    [status |-> i.status, amount_paid |-> i.amount_paid, amount_due |-> i.amount_due,
     payment_method |-> i.payment_method]

\* The detail page before its effect has run.
UnmountedView ==
    [id |-> 0, loading |-> TRUE, invoice |-> None, profile |-> None, error |-> "",
     loads |-> <<>>]

\* A list page before its first effect has run: the useState values of the
\* table data, and no request awaited.
UnmountedList ==
    [rows |-> None, total |-> 0, isLoading |-> TRUE, loads |-> <<>>]

-----------------------------------------------------------------------------
(* SpecTotals: the calculator applied to every invoice within the bounds. *)

InitTotals ==
    /\ \E items \in ItemLists, dtype \in DiscountTypes, damount \in DiscountAmounts :
          /\ inv = InvoiceOf(items, dtype, damount)
          /\ form = FormOf(items, dtype, damount)
    /\ totals = None
    /\ formTotals = None
    /\ pageW = A4W
    /\ doc = None
    /\ env = PageEnv
    /\ bar = BarOf(Some(inv))
    /\ db = Some(RowOf(inv))
    /\ request = None
    /\ view = UnmountedView /\ list = UnmountedList

\* const totals = computeTotals(inv)
ComputeTotals ==
    /\ totals' = Some(computeTotals(inv))
    /\ UNCHANGED <<inv, form, formTotals, pageW, doc, env, bar, db, request, view, list>>

\* the useMemo chain subtotal, taxTotal, discountAmount, total of the form
DeriveFormTotals ==
    /\ formTotals' = Some(derivedTotals(form))
    /\ UNCHANGED <<inv, form, totals, pageW, doc, env, bar, db, request, view, list>>

NextTotals == ComputeTotals \/ DeriveFormTotals

SpecTotals == InitTotals /\ [][NextTotals]_vars

-----------------------------------------------------------------------------
(* Claims about the totals calculator (SpecTotals). *)

\* The sum f[1] + ... + f[n].
RECURSIVE Sigma(_, _)
Sigma(f, n) == IF n = 0 THEN 0 ELSE f[n] + Sigma(f, n - 1)

NonNegativeInputs(i) ==
    /\ \A k \in 1..Len(i.items) :
          /\ i.items[k].quantity >= 0
          /\ i.items[k].unit_price >= 0
          /\ i.items[k].tax_percent >= 0
    /\ i.discount_amount >= 0

\* The sums of the specification for the invoice i: the sum of quantity *
\* unit_price as a whole number, and 100 times the tax total in 1/UNIT (so
\* that no division is needed).
SigmaLines(i) ==
    Sigma([k \in 1..Len(i.items) |-> i.items[k].quantity * i.items[k].unit_price],
          Len(i.items))
SigmaTax100(i) ==
    Sigma([k \in 1..Len(i.items) |->
              UNIT * i.items[k].quantity * i.items[k].unit_price * i.items[k].tax_percent],
          Len(i.items))

FollowsFormulas(r, i) ==
    /\ r.subtotal = UNIT * SigmaLines(i)
    /\ 100 * r.taxTotal = SigmaTax100(i)
    \* SigmaLines * (discount_amount / CENT) / 100, in 1/UNIT
    /\ i.discount_type = "percent" => r.discount = SigmaLines(i) * i.discount_amount
    /\ i.discount_type # "percent" => CENT * r.discount = UNIT * i.discount_amount
    /\ r.total = r.subtotal + r.taxTotal - r.discount

\* C1: for every list of line items (negative quantities and prices included)
\* and either discount type, computeTotals returns subtotal = sum of
\* quantity * unit_price, taxTotal = sum of quantity * unit_price *
\* tax_percent / 100, discount = subtotal * discount_amount / 100 for a percent
\* discount and discount_amount verbatim otherwise, and total = subtotal +
\* taxTotal - discount; the totals the new-invoice form derives follow the
\* same formulas.
C1_TotalsFollowFormulas ==
    /\ totals # None => FollowsFormulas(Get(totals), inv)
    /\ formTotals # None => FollowsFormulas(Get(formTotals), inv)

C1_Witness ==
    /\ totals # None /\ formTotals # None
    /\ Len(inv.items) = 2
    /\ inv.items[1].quantity < 0 /\ inv.items[2].unit_price < 0
    /\ inv.items[1].tax_percent > 0
    /\ inv.discount_type = "percent" /\ inv.discount_amount > 0
    /\ Get(totals).discount # 0

\* C2, as claimed: for non-negative items and a non-negative discount amount
\* the returned total is never negative.
C2_TotalNeverNegative ==
    (totals # None /\ NonNegativeInputs(inv)) => Get(totals).total >= 0

\* C2, amended: nothing clamps the total.  For non-negative items and a
\* non-negative amount, a percent discount of at most 100 gives total >= 0; an
\* absolute discount gives total >= 0 exactly when the amount is at most
\* subtotal + tax, and a larger amount gives the negative total
\* subtotal + tax - amount.
C2_TotalSignFollowsDiscount ==
    (totals # None /\ NonNegativeInputs(inv)) =>
        LET r == Get(totals)
            amount == inv.discount_amount * (UNIT \div CENT)
        IN  /\ (inv.discount_type = "percent" /\ inv.discount_amount <= 100 * CENT)
                   => r.total >= 0
            /\ inv.discount_type = "value"
                   => /\ (r.total >= 0) <=> (amount <= r.subtotal + r.taxTotal)
                      /\ amount > r.subtotal + r.taxTotal
                            => r.total = r.subtotal + r.taxTotal - amount

C2_Witness ==
    /\ totals # None /\ NonNegativeInputs(inv)
    /\ inv.items # <<>>
    /\ inv.discount_type = "value"
    /\ Get(totals).subtotal > 0
    /\ Get(totals).total < 0

\* The invoice i with its percent discount p replaced by the absolute
\* discount S * p / 100, S being the subtotal of its items.
AbsoluteEquivalent(i) ==
    [i EXCEPT !.discount_type = "value",
              !.discount_amount = (SigmaLines(i) * i.discount_amount) \div 100]

\* C3: for items whose subtotal is S and a percent discount p, computeTotals
\* yields the same discount and the same total as computeTotals on the same
\* items with the absolute discount S * p / 100.
C3_PercentEqualsAbsolute ==
    (totals # None /\ inv.discount_type = "percent") =>
        /\ computeTotals(AbsoluteEquivalent(inv)).discount = Get(totals).discount
        /\ computeTotals(AbsoluteEquivalent(inv)).total = Get(totals).total

C3_Witness ==
    /\ totals # None
    /\ inv.discount_type = "percent"
    /\ Len(inv.items) = 2
    /\ Get(totals).taxTotal > 0
    /\ Get(totals).discount > 0
    /\ AbsoluteEquivalent(inv).discount_amount = 23 * CENT

\* C4: for an empty item list, computeTotals returns subtotal = 0 and
\* taxTotal = 0, a discount of 0 for a percent policy and of the amount for
\* an absolute one, and total = -discount.
C4_ZeroItems ==
    (totals # None /\ inv.items = <<>>) =>
        LET r == Get(totals)
        IN  /\ r.subtotal = 0
            /\ r.taxTotal = 0
            /\ inv.discount_type = "percent" => r.discount = 0
            /\ inv.discount_type = "value" => CENT * r.discount = UNIT * inv.discount_amount
            /\ r.total = 0 - r.discount

C4_Witness ==
    /\ totals # None
    /\ inv.items = <<>>
    /\ inv.discount_type = "value"
    /\ inv.discount_amount > 0
    /\ Get(totals).total < 0

-----------------------------------------------------------------------------
(* SpecLayout and SpecCard: the PDF handlers.  The invoice is the one the   *)
(* page passed in; autoTable's finalY, the number of lines                  *)
(* splitTextToSize wraps the notes to, and whether window.open returned a   *)
(* window are the library's and the browser's answers.                      *)

MinPageW == 520
MaxPageW == 700
MaxWrapLines == 2

PageWidths == {A4W} \cup {pt(w) : w \in MinPageW..MaxPageW}
TableEnds == {pt(230), pt(480)}
OptionalTexts == {None, Some(""), Some("Thank you")}

SampleRow ==
    [item |-> Some("Widget"), description |-> Some("Blue"),
     quantity |-> 2, unit_price |-> 50, tax_percent |-> 10]

RenderInvoices ==
    {[InvoiceOf(items, d[1], d[2]) EXCEPT
          !.amount_paid = paid, !.amount_due = due, !.payment_method = method,
          !.notes = notes, !.terms = terms] :
        items \in {<<>>, <<SampleRow>>},
        d \in {<<"value", 0>>, <<"value", 10 * CENT>>, <<"percent", 10 * CENT>>},
        paid \in {0, 40 * CENT}, due \in {0, 70 * CENT},
        method \in {None, Some("Cash")},
        notes \in OptionalTexts, terms \in OptionalTexts}

SampleInvoice ==
    [InvoiceOf(<<SampleRow>>, "value", 10 * CENT) EXCEPT
          !.amount_paid = 40 * CENT, !.amount_due = 60 * CENT,
          !.payment_method = Some("Cash"), !.notes = Some("Thank you")]

InitLayout ==
    /\ inv = SampleInvoice
    /\ form = FormOf(inv.items, inv.discount_type, inv.discount_amount)
    /\ pageW \in PageWidths
    /\ totals = None
    /\ formTotals = None
    /\ doc = None
    /\ env = PageEnv
    /\ bar = BarOf(Some(inv))
    /\ db = Some(RowOf(inv))
    /\ request = None
    /\ view = UnmountedView /\ list = UnmountedList

InitCard ==
    /\ inv \in RenderInvoices
    /\ form = FormOf(inv.items, inv.discount_type, inv.discount_amount)
    /\ pageW = A4W
    /\ totals = None
    /\ formTotals = None
    /\ doc = None
    /\ env = PageEnv
    /\ bar = BarOf(Some(inv))
    /\ db = Some(RowOf(inv))
    /\ request = None
    /\ view = UnmountedView /\ list = UnmountedList

\* SpecTable: invoices whose rows differ in the item label and the
\* description, an item label of "" and a null description included.
TableRows ==
    {[item |-> item, description |-> description,
      quantity |-> n[1], unit_price |-> n[2], tax_percent |-> n[3]] :
        item \in {Some(""), Some("Widget")},
        description \in {None, Some(""), Some("Blue")},
        n \in {<<2, 50, 10>>, <<1, 10, 0>>}}

InitTable ==
    /\ \E items \in SeqsUpTo(TableRows, 2) : inv = InvoiceOf(items, "value", 0)
    /\ form = FormOf(inv.items, inv.discount_type, inv.discount_amount)
    /\ pageW = A4W
    /\ totals = None
    /\ formTotals = None
    /\ doc = None
    /\ env = PageEnv
    /\ bar = BarOf(Some(inv))
    /\ db = Some(RowOf(inv))
    /\ request = None
    /\ view = UnmountedView /\ list = UnmountedList

\* SpecFrom: the sender as branding, the invoice's from_snapshot and the
\* profile give it.  SenderNames varies the fields the name is taken from,
\* SenderContacts those of the email, the address, the phone and the website.
SenderNames ==
    {[branding |-> [NoBranding EXCEPT !.companyName = b],
      from_snapshot |-> [NoSnapshot EXCEPT !.type = t, !.company_name = sc, !.full_name = sf],
      profile |-> [BlankProfile EXCEPT !.accountType = a, !.companyName = pc, !.fullName = pf]] :
        b \in {"", "Brand Co"},
        t \in {"", "company", "individual"}, sc \in {"", "Snap Ltd"}, sf \in {"", "Sam Snap"},
        a \in {"company", "individual"}, pc \in {"", "Acme Ltd"}, pf \in {"", "Ann Lee"}}

SenderContacts ==
    {[branding |-> [NoBranding EXCEPT !.email = e[1], !.address1 = ad[1][1], !.address2 = ad[1][2],
                                      !.phone = ph[1], !.website = w[1]],
      from_snapshot |-> [NoSnapshot EXCEPT !.type = "company", !.company_name = "Snap Ltd",
                                           !.email = e[2], !.address_line_1 = ad[2],
                                           !.phone = ph[2]],
      profile |-> [SampleProfile EXCEPT !.email = e[3], !.address_line_1 = ad[3],
                                        !.phone = ph[3], !.website = w[2]]] :
        e \in {"", "brand@example.com"} \X {"", "snap@example.com"} \X {"", "acme@example.com"},
        ad \in {<<"", "">>, <<"1 Brand St", "Floor 2">>} \X {"", "2 Snap Rd"} \X {"", "3 Acme Ave"},
        ph \in {"", "111"} \X {"", "222"} \X {"", "333"},
        w \in {"", "brand.example"} \X {"", "acme.example"}}

InitFrom ==
    /\ \E sender \in SenderNames \cup SenderContacts :
          /\ inv = [InvoiceOf(<<SampleRow>>, "value", 0) EXCEPT
                        !.from_snapshot = sender.from_snapshot]
          /\ env = [PageEnv EXCEPT !.profile = Some(sender.profile),
                                   !.fetchProfile = Some(sender.profile),
                                   !.branding = sender.branding]
    /\ form = FormOf(inv.items, inv.discount_type, inv.discount_amount)
    /\ pageW = A4W
    /\ totals = None
    /\ formTotals = None
    /\ doc = None
    /\ bar = BarOf(Some(inv))
    /\ db = Some(RowOf(inv))
    /\ request = None
    /\ view = UnmountedView /\ list = UnmountedList

\* SpecExport: the action bar as any caller may mount it.  The invoice and
\* the profile are passed or not; getInvoice finds the row or returns null;
\* fetchProfile answers or throws; the logo URL is unreachable (fetch fails or
\* answers not-ok), or answers bytes that are an image, or answers bytes that
\* doc.addImage cannot embed.
ExportEnvs ==
    {[invoiceProp |-> ip, getInvoice |-> gi, profile |-> pp, fetchProfile |-> fp,
      branding |-> NoBranding, logo |-> logo] :
        ip \in BOOLEAN, gi \in BOOLEAN,
        pp \in {None, Some(SampleProfile)}, fp \in {None, Some(SampleProfile)},
        logo \in {"unreachable", "undecodable", "image"}}

InitExport ==
    /\ inv \in {SampleInvoice, InvoiceOf(<<>>, "value", 0)}
    /\ env \in ExportEnvs
    /\ form = FormOf(inv.items, inv.discount_type, inv.discount_amount)
    /\ pageW = A4W
    /\ totals = None
    /\ formTotals = None
    /\ doc = None
    /\ bar = BarOf(IF env.invoiceProp THEN Some(inv) ELSE None)
    /\ db = IF env.getInvoice THEN Some(RowOf(inv)) ELSE None
    /\ request = None
    /\ view = UnmountedView /\ list = UnmountedList

\* toast({ title, description, variant })
Toast(title, description, variant) ==
    [title |-> title, description |-> description, variant |-> variant]

\* if (busy) return; setBusy(true): the handler h runs up to its first await.
\* The buttons are behind the payment dialog while it is open.
\* (a variant without the busy test, for checking what depends on it)
enter_NoBusyTest(h) ==
    /\ ~bar.isPaymentDialogOpen
    /\ bar' = [bar EXCEPT !.busy = TRUE, !.running = h, !.inFlight = @ + 1]
    /\ UNCHANGED <<inv, form, totals, formTotals, pageW, doc, env, db, request, view, list>>
enter(h) ==
    /\ ~bar.busy
    /\ ~bar.isPaymentDialogOpen
    /\ bar' = [bar EXCEPT !.busy = TRUE, !.running = h, !.inFlight = @ + 1]
    /\ UNCHANGED <<inv, form, totals, formTotals, pageW, doc, env, db, request, view, list>>

\* What the try block of a PDF handler throws, "" when it reaches its exit:
\* fetchProfile's error when the page passed no profile and the fetch fails,
\* "Invoice not found." when the page passed no invoice and getInvoice
\* returned null, doc.addImage's error when the logo was fetched but is not an
\* image jsPDF can embed.  imageUrlToDataURL catches its own failures and
\* returns undefined, and the logo is then skipped.
\* (a variant that lets a missing invoice pass, for checking what depends on
\* the test)
renderError_MissingInvoicePasses ==
    IF env.profile = None /\ env.fetchProfile = None THEN "fetchProfile"
    ELSE IF env.logo = "undecodable" THEN "addImage"
    ELSE ""
renderError ==
    IF env.profile = None /\ env.fetchProfile = None THEN "fetchProfile"
    ELSE IF ~env.invoiceProp /\ ~env.getInvoice THEN "Invoice not found."
    ELSE IF env.logo = "undecodable" THEN "addImage"
    ELSE ""

\* catch: toast "PDF Error" with err.message; finally: setBusy(false)
renderFails ==
    /\ renderError # ""
    /\ bar' = [bar EXCEPT !.busy = FALSE, !.running = "", !.inFlight = @ - 1,
                          !.toast = Toast("PDF Error", renderError, "destructive")]
    /\ doc' = doc

\* the exit of a handler: the document, its toast; finally: setBusy(false)
renderExits(document, title) ==
    /\ renderError = ""
    /\ bar' = [bar EXCEPT !.busy = FALSE, !.running = "", !.inFlight = @ - 1,
                          !.toast = Toast(title, "Invoice-number.pdf", "")]
    /\ doc' = Some(document)

enterDownloadPDF == enter("download")
enterPrintPDF == enter("print")
enterDownloadPDF_v1 == enter("download_v1")

\* handleDownloadPDF of the current component, to doc.save(filename)
handleDownloadPDF ==
    /\ bar.running = "download"
    /\ \E afterTableY \in TableEnds, notesLines \in 1..MaxWrapLines :
          \/ renderFails
          \/ renderExits(Document("download", totalsCard(inv, afterTableY),
                                  afterTableY, notesLines, "save"),
                         "PDF Downloaded")
    /\ UNCHANGED <<inv, form, totals, formTotals, pageW, env, db, request, view, list>>

\* handlePrintPDF, to window.open(pdfUrl), or doc.save when the popup is blocked
handlePrintPDF ==
    /\ bar.running = "print"
    /\ \E afterTableY \in TableEnds, notesLines \in 1..MaxWrapLines,
          exit \in {"print", "save"} :
          \/ renderFails
          \/ renderExits(Document("print", totalsCard(inv, afterTableY),
                                  afterTableY, notesLines, exit),
                         "Opening print dialog")
    /\ UNCHANGED <<inv, form, totals, formTotals, pageW, env, db, request, view, list>>

\* handleDownloadPDF of the earlier copy of the component
handleDownloadPDF_v1 ==
    /\ bar.running = "download_v1"
    /\ \E afterTableY \in TableEnds, notesLines \in 1..MaxWrapLines :
          \/ renderFails
          \/ renderExits(Document("download_v1", totalsCard_v1(inv, afterTableY),
                                  afterTableY, notesLines, "save"),
                         "PDF Downloaded")
    /\ UNCHANGED <<inv, form, totals, formTotals, pageW, env, db, request, view, list>>

NextRender ==
    \/ enterDownloadPDF \/ enterPrintPDF \/ enterDownloadPDF_v1
    \/ handleDownloadPDF \/ handlePrintPDF \/ handleDownloadPDF_v1

SpecLayout == InitLayout /\ [][NextRender]_vars
SpecCard == InitCard /\ [][NextRender]_vars
SpecTable == InitTable /\ [][NextRender]_vars
SpecFrom == InitFrom /\ [][NextRender]_vars
SpecExport == InitExport /\ [][NextRender]_vars

-----------------------------------------------------------------------------
(* Claims about the three-column block (SpecLayout). *)

\* 140 + 160 + 120 + 2 * 24: the narrowest width the three floors fit in.
FloorsWidth == pt(140) + pt(160) + pt(120) + 2 * G

ColumnsSum(d) == d.fromW + d.midW + d.detailsW + 2 * G

FloorsHold(d) == d.fromW >= pt(140) /\ d.detailsW >= pt(160) /\ d.midW >= pt(120)

C6_GreedyOrder ==
    doc # None =>
        LET d == Get(doc)
        IN  /\ d.fromW <= pt(180) /\ d.detailsW <= pt(200)
            /\ d.fromW < pt(180) => d.detailsW = pt(160)
            /\ d.midW < pt(160) => (d.detailsW = pt(160) /\ d.fromW = pt(140))
            /\ ((d.fromW < pt(180) \/ d.detailsW < pt(200))
                   /\ ~(d.detailsW = pt(160) /\ d.fromW = pt(140)))
                   => d.midW = pt(160)

\* the A4 page: Invoice Details at its floor, From narrowed part of the way
C6_Witness ==
    /\ doc # None
    /\ pageW = A4W
    /\ Get(doc).detailsW = pt(160)
    /\ Get(doc).fromW < pt(180) /\ Get(doc).fromW > pt(140)
    /\ Get(doc).midW = pt(160)

-----------------------------------------------------------------------------
(* Claims about the totals card and Notes / Terms (SpecCard). *)

ByCurrentComponent(d) == d.routine \in {"download", "print"}

\* The conditional payment lines of the invoice i that are present.
PaymentLines(i) ==
    (IF i.amount_paid > 0 THEN 1 ELSE 0) + (IF i.amount_due > 0 THEN 1 ELSE 0)

\* The card height for the invoice of the state with its amount_paid and
\* amount_due replaced by paid and due.
CardHeightWith(paid, due) ==
    cardHeight(computeTotals(inv), [inv EXCEPT !.amount_paid = paid, !.amount_due = due])

\* C7, as claimed: the card of an invoice is higher than the card of the same
\* invoice without amount_paid and amount_due by one fixed increment (what one
\* line alone adds) for each of the two lines that is present.
C7_OneIncrementPerLine ==
    (doc # None /\ ByCurrentComponent(Get(doc))) =>
        Get(doc).cardH - CardHeightWith(0, 0)
            = PaymentLines(inv) * (CardHeightWith(1, 0) - CardHeightWith(0, 0))

\* C7, amended: the card is 110 high, plus 14 when the discount is positive,
\* plus 14 for each of amount_paid and amount_due that is present, plus 4 of
\* spacing once when at least one of them is: one line adds 18, both add 32.
C7_IncrementPerLinePlusSpacing ==
    (doc # None /\ ByCurrentComponent(Get(doc))) =>
        Get(doc).cardH
            = pt(110)
              + (IF computeTotals(inv).discount > 0 THEN pt(14) ELSE 0)
              + PaymentLines(inv) * pt(14)
              + (IF PaymentLines(inv) >= 1 THEN pt(4) ELSE 0)

C7_Witness ==
    /\ doc # None /\ ByCurrentComponent(Get(doc))
    /\ inv.amount_paid > 0 /\ inv.amount_due > 0
    /\ Get(doc).cardH - CardHeightWith(0, 0) = pt(32)

\* C8: every line drawn in the totals card, the payment-method caption
\* included, is drawn inside the card rectangle: not above cardY and not below
\* cardY + cardH.
C8_CardHoldsItsLines ==
    doc # None =>
        \A k \in 1..Len(Get(doc).card) :
            /\ Get(doc).card[k].y >= Get(doc).cardY
            /\ Get(doc).card[k].y <= Get(doc).cardY + Get(doc).cardH

\* every conditional line present
C8_Witness ==
    /\ doc # None /\ ByCurrentComponent(Get(doc))
    /\ Len(Get(doc).card) = 7
    /\ Get(doc).card[3].label = "Discount"
    /\ Get(doc).card[7].label = "Payment Method"
    /\ Get(doc).card[7].y = Get(doc).cardY + pt(134)

\* C9: in every rendering routine, the Notes / Terms blocks start at or below
\* the end of the item table and at or below the bottom edge of the totals
\* card.
C9_NotesBelowTableAndCard ==
    (doc # None /\ Get(doc).blocks # <<>>) =>
        /\ Get(doc).blocks[1].y >= Get(doc).afterTableY
        /\ Get(doc).blocks[1].y >= Get(doc).cardY + Get(doc).cardH

\* What C9 asks, of the current component's two handlers alone.
C9_CurrentComponentNotesBelowCard ==
    (doc # None /\ ByCurrentComponent(Get(doc))) =>
        /\ Get(doc).ny >= Get(doc).afterTableY
        /\ Get(doc).ny >= Get(doc).cardY + Get(doc).cardH

NonEmptyText(o) == o # None /\ Get(o) # ""

Drawn(d, label, kind) ==
    \E k \in 1..Len(d.blocks) : d.blocks[k].label = label /\ d.blocks[k].kind = kind

\* C10: the Notes heading and body are drawn if and only if notes is
\* non-empty, the Terms heading and body if and only if terms is non-empty, and
\* an invoice with both empty or null produces no Notes / Terms block at all.
C10_NotesTermsOnlyWhenNonEmpty ==
    doc # None =>
        LET d == Get(doc)
        IN  /\ Drawn(d, "Notes", "heading") <=> NonEmptyText(inv.notes)
            /\ Drawn(d, "Notes", "body") <=> NonEmptyText(inv.notes)
            /\ Drawn(d, "Terms & Conditions", "heading") <=> NonEmptyText(inv.terms)
            /\ Drawn(d, "Terms & Conditions", "body") <=> NonEmptyText(inv.terms)
            /\ (~NonEmptyText(inv.notes) /\ ~NonEmptyText(inv.terms)) => d.blocks = <<>>

\* notes is the empty string, terms is null: nothing is drawn
C10_Witness ==
    /\ doc # None
    /\ inv.notes = Some("") /\ inv.terms = None
    /\ Get(doc).blocks = <<>>

-----------------------------------------------------------------------------
(* Claims about the items table (SpecTable). *)

\* C11: Download and Print do not diverge.  The document either routine of
\* the current component produces has, for every line item, the cell values
\* (item label, description, quantity, price, tax text, line total) of the
\* other routine, the column geometry of the other routine and the same
\* totals card.
C11_DownloadAndPrintAgree ==
    (doc # None /\ ByCurrentComponent(Get(doc))) =>
        LET d == Get(doc)
            card == totalsCard(inv, d.afterTableY)
        IN  /\ d.bodyRows = bodyRows_download(inv)
            /\ d.bodyRows = bodyRows_print(inv)
            /\ d.table = tableStyles_download
            /\ d.table = tableStyles_print
            /\ d.cardY = card.cardY /\ d.cardH = card.cardH /\ d.card = card.lines

\* What the two routines do share: every cell but the item label, the widths
\* of the Qty, Tax and Total columns, the three-column block and the card.
C11_SharedByDownloadAndPrint ==
    (doc # None /\ ByCurrentComponent(Get(doc))) =>
        LET d == Get(doc)
            card == totalsCard(inv, d.afterTableY)
        IN  /\ Len(d.bodyRows) = Len(inv.items)
            /\ \A k \in 1..Len(d.bodyRows) :
                  /\ [f \in {"description", "qty", "price", "tax", "total"} |-> d.bodyRows[k][f]]
                       = [f \in {"description", "qty", "price", "tax", "total"} |->
                              bodyRows_download(inv)[k][f]]
                  /\ inv.items[k].item # Some("") =>
                        d.bodyRows[k].item = bodyRows_download(inv)[k].item
            /\ \A c \in {3, 5, 6} : d.table.cellWidth[c] = tableStyles_download.cellWidth[c]
            /\ d.cardY = card.cardY /\ d.cardH = card.cardH /\ d.card = card.lines

-----------------------------------------------------------------------------
(* Claims about the From block (SpecFrom). *)

\* The first entry of xs that is not "", and "" when there is none.
RECURSIVE FirstNonEmpty(_)
FirstNonEmpty(xs) ==
    IF xs = <<>> THEN ""
    ELSE IF Head(xs) # "" THEN Head(xs) ELSE FirstNonEmpty(Tail(xs))

\* The text the From block of the document d shows for the sender field
\* `field`, and "" when it has no line for it.
FromText(d, field) ==
    IF \E k \in 1..Len(d.fromLines) : d.fromLines[k].field = field
    THEN d.fromLines[CHOOSE k \in 1..Len(d.fromLines) : d.fromLines[k].field = field].text
    ELSE ""

SnapshotName == IF inv.from_snapshot.type = "company" THEN inv.from_snapshot.company_name
                ELSE inv.from_snapshot.full_name
ProfileName == IF Get(env.profile).accountType = "company" THEN Get(env.profile).companyName
               ELSE Get(env.profile).fullName

\* C12: the first line of the From block is the first non-empty value of the
\* branding company name, the sender snapshot's name chosen by its kind
\* (company_name for a company snapshot, full_name otherwise), the profile's
\* name chosen by account kind (companyName for a company account, fullName
\* otherwise) and the placeholder "Your Company".
C12_FromNamePrecedence ==
    doc # None =>
        /\ Get(doc).fromLines[1].field = "name"
        /\ Get(doc).fromLines[1].text =
              FirstNonEmpty(<<env.branding.companyName, SnapshotName, ProfileName,
                              "Your Company">>)

\* no branding name; a company snapshot without a company name, whose
\* full_name is passed over; the name of an individual's profile is drawn
C12_Witness ==
    /\ doc # None
    /\ env.branding.companyName = ""
    /\ inv.from_snapshot.type = "company"
    /\ inv.from_snapshot.company_name = "" /\ inv.from_snapshot.full_name = "Sam Snap"
    /\ Get(env.profile).accountType = "individual"
    /\ Get(env.profile).companyName = "Acme Ltd"
    /\ Get(doc).fromLines[1].text = "Ann Lee"

BrandingRendered(d, field, brandingField) ==
    env.branding[brandingField] # "" => FromText(d, field) = env.branding[brandingField]

-----------------------------------------------------------------------------
(* Claims about the failures of the PDF handlers (SpecExport). *)

\* A PDF handler has run to its end: it has left its toast and none is in
\* flight.
HandlerFinished == bar.running = "" /\ bar.toast.title # ""

PdfError == bar.toast.title = "PDF Error" /\ bar.toast.variant = "destructive"

\* C14: when no invoice is supplied and getInvoice returns null, the download
\* and print handlers produce no output at all (no document saved, no print
\* window opened), surface an error to the user, and return the busy flag to
\* false.
C14_NotFoundNoOutput ==
    (~env.invoiceProp /\ ~env.getInvoice) =>
        /\ doc = None
        /\ HandlerFinished => (PdfError /\ ~bar.busy)

\* the profile is fetched, the invoice is not found
C14_Witness ==
    /\ ~env.invoiceProp /\ ~env.getInvoice
    /\ env.profile = None /\ env.fetchProfile # None
    /\ HandlerFinished
    /\ bar.toast = Toast("PDF Error", "Invoice not found.", "destructive")
    /\ ~bar.busy
    /\ doc = None

\* The handler has an invoice and a profile to work with.
InputsInHand ==
    /\ env.invoiceProp \/ env.getInvoice
    /\ env.profile # None \/ env.fetchProfile # None

\* C15: if the logo image cannot be fetched or decoded, rendering proceeds
\* without it: the handler still reaches its save / print exit with the rest
\* of the document drawn, and no PDF error is surfaced to the user.
C15_LogoFailureTolerated ==
    (InputsInHand /\ env.logo # "image" /\ HandlerFinished) =>
        /\ doc # None
        /\ ~Get(doc).logo
        /\ Get(doc).exit \in {"save", "print"}
        /\ ~PdfError

\* What holds of C15: a logo that cannot be fetched is skipped.
C15_UnreachableLogoSkipped ==
    (InputsInHand /\ env.logo = "unreachable" /\ HandlerFinished) =>
        /\ doc # None
        /\ ~Get(doc).logo
        /\ Get(doc).exit \in {"save", "print"}
        /\ ~PdfError

-----------------------------------------------------------------------------
(* InvoiceViewActions: Update Payment and Mark as Paid.  inv is the invoice  *)
(* the detail page holds and passes as the invoice prop, db the row the      *)
(* backend holds.  Amounts of the dialog, of the request and of the row are  *)
(* counted in 1/CENT; the invoices of SpecPayments have totals of whole      *)
(* hundredths, so that totalOf loses nothing.                                *)

\* totals.total of the component: computeTotals(invoice).total, in 1/CENT
totalOf(i) == computeTotals(i).total \div (UNIT \div CENT)

\* useEffect(() => { setPaymentMethod(..); setAmountPaid(..) }, [invoice]), and
\* the same two calls of the Update Payment button
syncWithInvoice(b, i) ==
    [b EXCEPT !.paymentMethod = IF TruthyStr(i.payment_method) THEN i.payment_method ELSE None,
              !.amountPaid = i.amount_paid]

\* The validation of handleUpdatePayment: the message set, "" when the amount
\* passes.  (a variant without the upper bound, for checking what depends on
\* it)
amountPaidErrorOf_NoUpperBound(amountPaid, total) ==
    IF amountPaid < 0 THEN "Amount paid cannot be negative" ELSE ""
amountPaidErrorOf(amountPaid, total) ==
    IF amountPaid < 0 THEN "Amount paid cannot be negative"
    ELSE IF amountPaid > total THEN "Amount paid cannot exceed invoice total"
    ELSE ""

\* The argument of updateInvoicePayment(invoiceId, { .. }).  (a variant that
\* always marks the invoice paid, for checking what depends on the status)
paymentUpdate_AlwaysPaid(amountPaid, total, paymentMethod) ==
    [fn |-> "updateInvoicePayment", payment_method |-> paymentMethod,
     amount_paid |-> amountPaid, amount_due |-> Max(0, total - amountPaid),
     status |-> "paid"]
paymentUpdate(amountPaid, total, paymentMethod) ==
    [fn |-> "updateInvoicePayment", payment_method |-> paymentMethod,
     amount_paid |-> amountPaid,
     amount_due |-> Max(0, total - amountPaid),
     status |-> IF amountPaid >= total THEN "paid" ELSE "unpaid"]

\* updateInvoicePayment is not among the sources; it is taken to write the
\* four fields it is given to the row, as markInvoicePaid writes the status.
updateInvoicePayment(row, fields) ==
    [row EXCEPT !.status = fields.status, !.amount_paid = fields.amount_paid,
                !.amount_due = fields.amount_due,
                !.payment_method = fields.payment_method]

\* supabase.from("invoices").update({ status: "paid" }).eq("id", id)
markInvoicePaid(row) == [row EXCEPT !.status = "paid"]

\* onPaid of the detail page: setInvoice(prev => ({ ...prev, status: "paid" }))
onPaid(i) == [i EXCEPT !.status = "paid"]

PaymentMethods == {None, Some("Cash")}
\* what the user types into the Amount Paid input, in 1/CENT
AmountsEntered == {0 - 5 * CENT, 0, 40 * CENT, 100 * CENT, 110 * CENT, 500 * CENT}

FreeRow ==
    [item |-> Some("Sample"), description |-> None,
     quantity |-> 1, unit_price |-> 0, tax_percent |-> 0]

\* Invoices as the new-invoice form creates them (quantity > 0, unit price
\* >= 0, any discount): totals of 110.00, 100.00, -890.00, 0.00, -10.00 and
\* -1000.00; status unpaid and no payment recorded.
PaymentInvoices ==
    {InvoiceOf(<<row>>, "value", d) :
        row \in {SampleRow, FreeRow}, d \in {0, 10 * CENT, 1000 * CENT}}

InitPayments ==
    /\ inv \in PaymentInvoices
    /\ form = FormOf(inv.items, inv.discount_type, inv.discount_amount)
    /\ pageW = A4W
    /\ totals = None
    /\ formTotals = None
    /\ doc = None
    /\ env = PageEnv
    /\ bar = BarOf(Some(inv))
    /\ db = Some(RowOf(inv))
    /\ request = None
    /\ view = UnmountedView /\ list = UnmountedList

\* The Update Payment button, shown while invoice.status is not "paid".  The
\* dialog is modal: while it is open the buttons of the bar cannot be clicked.
openPaymentDialog ==
    /\ inv.status # "paid" /\ ~bar.busy /\ ~bar.isPaymentDialogOpen
    /\ bar' = [syncWithInvoice(bar, inv) EXCEPT !.isPaymentDialogOpen = TRUE]
    /\ UNCHANGED <<inv, form, totals, formTotals, pageW, doc, env, db, request, view, list>>

\* onOpenChange of the dialog and its Cancel button
closePaymentDialog ==
    /\ bar.isPaymentDialogOpen
    /\ bar' = [bar EXCEPT !.isPaymentDialogOpen = FALSE]
    /\ UNCHANGED <<inv, form, totals, formTotals, pageW, doc, env, db, request, view, list>>

\* onValueChange of the payment method select
changePaymentMethod ==
    /\ bar.isPaymentDialogOpen
    /\ \E v \in PaymentMethods : bar' = [bar EXCEPT !.paymentMethod = v]
    /\ UNCHANGED <<inv, form, totals, formTotals, pageW, doc, env, db, request, view, list>>

\* onChange of the Amount Paid input
changeAmountPaid ==
    /\ bar.isPaymentDialogOpen
    /\ \E val \in AmountsEntered :
          LET newValue == IF val >= 0 THEN Min(val, totalOf(inv)) ELSE 0
          IN  bar' = [bar EXCEPT
                        !.amountPaid = newValue,
                        !.amountPaidError =
                            IF bar.amountPaidError # ""
                               /\ newValue >= 0 /\ newValue <= totalOf(inv)
                            THEN "" ELSE bar.amountPaidError]
    /\ UNCHANGED <<inv, form, totals, formTotals, pageW, doc, env, db, request, view, list>>

\* handleUpdatePayment up to its await: the validation, and the request
handleUpdatePayment ==
    /\ bar.isPaymentDialogOpen /\ ~bar.busy
    /\ LET error == amountPaidErrorOf(bar.amountPaid, totalOf(inv))
       IN  IF error # ""
           THEN /\ bar' = [bar EXCEPT !.amountPaidError = error]
                /\ request' = request
           ELSE /\ bar' = [bar EXCEPT !.amountPaidError = "", !.busy = TRUE,
                                      !.running = "updatePayment", !.inFlight = @ + 1]
                /\ request' = Some(paymentUpdate(bar.amountPaid, totalOf(inv),
                                                 bar.paymentMethod))
    /\ UNCHANGED <<inv, form, totals, formTotals, pageW, doc, env, db, view, list>>

\* handleUpdatePayment from the answer of updateInvoicePayment on: the toast,
\* the dialog closed and onPaid, or the error toast; finally setBusy(false)
updatePaymentSettles ==
    /\ bar.running = "updatePayment"
    /\ \/ /\ db' = Some(updateInvoicePayment(Get(db), Get(request)))
          /\ inv' = onPaid(inv)
          /\ bar' = [syncWithInvoice(bar, inv') EXCEPT
                        !.busy = FALSE, !.running = "", !.inFlight = @ - 1,
                        !.isPaymentDialogOpen = FALSE,
                        !.toast = Toast("Payment updated", "", "")]
       \/ /\ bar' = [bar EXCEPT !.busy = FALSE, !.running = "", !.inFlight = @ - 1,
                                !.toast = Toast("Failed to update payment", "",
                                                "destructive")]
          /\ UNCHANGED <<inv, db, list>>
    /\ UNCHANGED <<form, totals, formTotals, pageW, doc, env, request, view, list>>

\* handleMarkAsPaid up to its await; the button is shown while !isPaid
handleMarkAsPaid ==
    /\ inv.status # "paid" /\ ~bar.busy /\ ~bar.isPaymentDialogOpen
    /\ bar' = [bar EXCEPT !.busy = TRUE, !.running = "markPaid", !.inFlight = @ + 1]
    /\ request' = Some([fn |-> "markInvoicePaid"])
    /\ UNCHANGED <<inv, form, totals, formTotals, pageW, doc, env, db, view, list>>

\* handleMarkAsPaid from the answer of markInvoicePaid on
markAsPaidSettles ==
    /\ bar.running = "markPaid"
    /\ \/ /\ db' = Some(markInvoicePaid(Get(db)))
          /\ inv' = onPaid(inv)
          /\ bar' = [syncWithInvoice(bar, inv') EXCEPT
                        !.busy = FALSE, !.running = "", !.inFlight = @ - 1,
                        !.toast = Toast("Marked as paid", "", "")]
       \/ /\ bar' = [bar EXCEPT !.busy = FALSE, !.running = "", !.inFlight = @ - 1,
                                !.toast = Toast("Failed to mark as paid", "",
                                                "destructive")]
          /\ UNCHANGED <<inv, db, list>>
    /\ UNCHANGED <<form, totals, formTotals, pageW, doc, env, request, view, list>>

\* The detail page mounted anew, between two handlers: the invoice it holds is
\* what getInvoice returns of the row, which is the status; getInvoice selects
\* no payment column, and the component reads invoice.amount_paid || 0 and
\* invoice.payment_method || null.  The component starts from its useState
\* values.
getInvoice(i, row) ==
    [i EXCEPT !.status = row.status,
              !.amount_paid = 0, !.amount_due = 0, !.payment_method = None]

loadInvoice ==
    /\ bar.running = ""
    /\ inv' = getInvoice(inv, Get(db))
    /\ bar' = BarOf(Some(inv'))
    /\ UNCHANGED <<form, totals, formTotals, pageW, doc, env, db, request, view, list>>

NextPayments ==
    \/ openPaymentDialog \/ closePaymentDialog
    \/ changePaymentMethod \/ changeAmountPaid
    \/ handleUpdatePayment \/ updatePaymentSettles
    \/ handleMarkAsPaid \/ markAsPaidSettles
    \/ loadInvoice

SpecPayments == InitPayments /\ [][NextPayments]_vars

-----------------------------------------------------------------------------
(* Claims about the persisted payment fields, checked under SpecPayments. *)

\* C16: in every state reached through the creation of an invoice, Update
\* Payment and Mark as Paid, the persisted status is "paid" if and only if
\* amount_paid >= total, and no paid invoice has a non-zero amount_due.
C16_PaidIffFullyPaid ==
    /\ Get(db).status = "paid" <=> Get(db).amount_paid >= totalOf(inv)
    /\ Get(db).status = "paid" => Get(db).amount_due = 0

\* The state that refutes C16 by Mark as Paid alone after a part payment: a
\* row of a positive total persisted as paid with less than the total paid
\* and an amount still due.
C16_PaidWithAmountDue ==
    /\ totalOf(inv) > 0
    /\ Get(db).status = "paid"
    /\ Get(db).amount_paid > 0 /\ Get(db).amount_paid < totalOf(inv)
    /\ Get(db).amount_due > 0
    /\ Get(request).fn = "markInvoicePaid"

\* What does hold of the status: Update Payment alone keeps it derived from
\* the amount, for the row it writes.
C16_UpdatePaymentDerivesStatus ==
    [][updatePaymentSettles /\ bar'.toast.title = "Payment updated" =>
          /\ db'[1].status = "paid" <=> db'[1].amount_paid >= totalOf(inv)
          /\ db'[1].status = "paid" => db'[1].amount_due = 0]_vars

\* C17: every payment update that handleUpdatePayment persists has
\* 0 <= amount_paid <= total, amount_due = max(0, total - amount_paid),
\* amount_paid + amount_due = total, and status "paid" exactly when
\* amount_paid >= total, "unpaid" otherwise.  The update is the argument
\* handleUpdatePayment hands to updateInvoicePayment; total is totals.total.
C17_PersistedPaymentConsistent ==
    (request # None /\ Get(request).fn = "updateInvoicePayment") =>
        LET update == Get(request)
            total == totalOf(inv)
        IN  /\ 0 <= update.amount_paid /\ update.amount_paid <= total
            /\ update.amount_due = Max(0, total - update.amount_paid)
            /\ update.amount_paid + update.amount_due = total
            /\ update.status = (IF update.amount_paid >= total THEN "paid" ELSE "unpaid")

\* A part payment persisted: 40.00 of 110.00, 70.00 due, unpaid.
C17_Witness ==
    /\ request # None /\ Get(request).fn = "updateInvoicePayment"
    /\ bar.toast.title = "Payment updated"
    /\ totalOf(inv) = 110 * CENT
    /\ Get(db).amount_paid = 40 * CENT /\ Get(db).amount_due = 70 * CENT
    /\ Get(db).status = "unpaid"

\* A full payment persisted: 110.00 of 110.00, nothing due, paid.
C17_FullPaymentPersisted ==
    /\ request # None /\ Get(request).fn = "updateInvoicePayment"
    /\ bar.toast.title = "Payment updated"
    /\ totalOf(inv) = 110 * CENT
    /\ Get(db).amount_paid = 110 * CENT /\ Get(db).amount_due = 0
    /\ Get(db).status = "paid"

\* C18: when the entered amount is negative or exceeds the invoice total,
\* handleUpdatePayment makes no persistence call, sets the amount error
\* message, leaves the payment dialog open and the busy flag false, and the
\* persisted invoice is unchanged.
C18_InvalidAmountRejected ==
    [][(handleUpdatePayment
          /\ (bar.amountPaid < 0 \/ bar.amountPaid > totalOf(inv))) =>
             /\ request' = request
             /\ db' = db
             /\ bar'.amountPaidError # ""
             /\ bar'.isPaymentDialogOpen
             /\ ~bar'.busy /\ bar'.running = ""]_vars

\* An amount above the total was submitted and rejected: nothing was ever
\* requested, the message is shown in the open dialog.
C18_Witness ==
    /\ bar.amountPaid > totalOf(inv)
    /\ bar.amountPaidError = "Amount paid cannot exceed invoice total"
    /\ bar.isPaymentDialogOpen /\ ~bar.busy
    /\ request = None /\ db = Some(RowOf(inv))

\* A negative amount submitted and rejected.
C18_NegativeRejected ==
    /\ bar.amountPaid < 0
    /\ bar.amountPaidError = "Amount paid cannot be negative"
    /\ bar.isPaymentDialogOpen /\ ~bar.busy
    /\ request = None

-----------------------------------------------------------------------------
(* NewInvoicePage: the bill-to fields, the customer picker and the creation  *)
(* request.  form is the page's state, request the create_invoice call in    *)
(* flight.                                                                   *)

\* s.trim() of the texts of the model, of which " " alone has white space
trim(s) == IF s = " " THEN "" ELSE s

\* emailRx.test(s): of the texts of the model, those with one @ and a dot
\* after it
emailRx(s) == s \in {"ann@example.com", "acme@example.com"}

\* x || null
OrNull(s) == IF s = "" THEN None ELSE Some(s)

\* c.field ?? ""
OrEmpty(o) == IF o = None THEN "" ELSE Get(o)

\* The rows of the customer picker
Customers ==
    {[id |-> "c1", type |-> "company", companyName |-> Some("Acme Ltd"),
      contactName |-> None, fullName |-> None, email |-> Some("acme@example.com"),
      phone |-> Some("555"), street |-> None, city |-> None, postal |-> None,
      country |-> None],
     [id |-> "c2", type |-> "individual", companyName |-> None,
      contactName |-> None, fullName |-> Some("Ann Lee"), email |-> None,
      phone |-> None, street |-> Some("1 Main St"), city |-> Some("Curepipe"),
      postal |-> Some("74000"), country |-> Some("Mauritius")]}

\* What the user types into each bill-to field
ClientInfoValues ==
    [type |-> {"company", "individual"},
     companyName |-> {"", " ", "Acme Ltd"},
     fullName |-> {"", "Ann Lee"},
     email |-> {"", "ann", "ann@example.com"},
     phone |-> {"", "555"},
     street |-> {"", "1 Main St"},
     city |-> {"Curepipe"},
     postal |-> {"74000"},
     country |-> {"Mauritius"}]

\* The page's useState values
NewInvoiceForm ==
    [lineItems |-> <<[item |-> "", quantity |-> 1, unitPrice |-> 0, tax |-> 0]>>,
     discount |-> [type |-> "value", amount |-> 0],
     selectedCustomer |-> None,
     clientInfo |-> [type |-> "company", companyName |-> "", contactName |-> "",
                     fullName |-> "", email |-> "", phone |-> "", street |-> "",
                     city |-> "", postal |-> "", country |-> ""],
     preferences |-> FALSE,
     saving |-> FALSE,
     toast |-> "",
     left |-> FALSE]

\* validate(): no field error
validate(f) ==
    LET c == f.clientInfo
        needCompany == c.type = "company"
    IN  /\ ~(needCompany /\ trim(c.companyName) = "")
        /\ ~(~needCompany /\ trim(c.fullName) = "")
        /\ trim(c.email) # "" /\ emailRx(c.email)
        /\ trim(c.phone) # "" /\ trim(c.street) # "" /\ trim(c.city) # ""
        /\ trim(c.postal) # "" /\ trim(c.country) # ""
        /\ Len(f.lineItems) # 0
        /\ \A k \in 1..Len(f.lineItems) :
              /\ trim(f.lineItems[k].item) # ""
              /\ f.lineItems[k].quantity > 0
              /\ f.lineItems[k].unitPrice >= 0

\* The client_snapshot object of doCreateUnpaid
clientSnapshot(c) ==
    [type |-> c.type,
     company_name |-> OrNull(c.companyName),
     contact_name |-> OrNull(c.contactName),
     full_name |-> OrNull(c.fullName),
     email |-> OrNull(c.email),
     phone |-> OrNull(c.phone),
     street |-> OrNull(c.street),
     city |-> OrNull(c.city),
     postal |-> OrNull(c.postal),
     country |-> OrNull(c.country)]

\* The argument of createInvoice, as far as the customer goes.  (a variant
\* that sends the bill-to fields whether or not a customer is selected)
createInvoicePayload_SnapshotAlways(f) ==
    [fn |-> "create_invoice", status |-> "unpaid",
     customer_id |-> IF f.selectedCustomer # None
                     THEN Some(Get(f.selectedCustomer).id) ELSE None,
     client_snapshot |-> Some(clientSnapshot(f.clientInfo))]
createInvoicePayload(f) ==
    [fn |-> "create_invoice", status |-> "unpaid",
     customer_id |-> IF f.selectedCustomer # None
                     THEN Some(Get(f.selectedCustomer).id) ELSE None,
     client_snapshot |-> IF f.selectedCustomer # None THEN None
                         ELSE Some(clientSnapshot(f.clientInfo))]

InitCreate ==
    /\ inv = SampleInvoice
    /\ form = NewInvoiceForm
    /\ pageW = A4W
    /\ totals = None
    /\ formTotals = None
    /\ doc = None
    /\ env = PageEnv
    /\ bar = BarOf(None)
    /\ db = None
    /\ request = None
    /\ view = UnmountedView /\ list = UnmountedList

\* The effect that loads the preferences
loadPreferences ==
    /\ ~form.left /\ ~form.preferences
    /\ form' = [form EXCEPT !.preferences = TRUE]
    /\ UNCHANGED <<inv, totals, formTotals, pageW, doc, env, bar, db, request, view, list>>

handleSelectCustomer ==
    /\ ~form.left
    /\ \E c \in Customers :
          form' = [form EXCEPT
                     !.selectedCustomer = Some(c),
                     !.clientInfo =
                         [type |-> c.type,
                          companyName |-> OrEmpty(c.companyName),
                          contactName |-> OrEmpty(c.contactName),
                          fullName |-> OrEmpty(c.fullName),
                          email |-> OrEmpty(c.email),
                          phone |-> OrEmpty(c.phone),
                          street |-> OrEmpty(c.street),
                          city |-> OrEmpty(c.city),
                          postal |-> OrEmpty(c.postal),
                          country |-> OrEmpty(c.country)],
                     !.toast = "Customer selected"]
    /\ UNCHANGED <<inv, totals, formTotals, pageW, doc, env, bar, db, request, view, list>>

\* onChange / onValueChange of a bill-to field
setClientInfo ==
    /\ ~form.left
    /\ \E field \in DOMAIN ClientInfoValues : \E v \in ClientInfoValues[field] :
          form' = [form EXCEPT !.clientInfo[field] = v]
    /\ UNCHANGED <<inv, totals, formTotals, pageW, doc, env, bar, db, request, view, list>>

\* updateLineItem of the first line's item name or quantity
updateLineItem ==
    /\ ~form.left
    /\ \/ \E v \in {"", "Widget"} : form' = [form EXCEPT !.lineItems[1].item = v]
       \/ \E v \in {0, 1} : form' = [form EXCEPT !.lineItems[1].quantity = v]
    /\ UNCHANGED <<inv, totals, formTotals, pageW, doc, env, bar, db, request, view, list>>

\* doCreateUnpaid up to its await; the Save button is disabled while saving
doCreateUnpaid ==
    /\ ~form.left /\ ~form.saving
    /\ IF ~validate(form)
       THEN /\ form' = [form EXCEPT !.toast = "Please fix the highlighted fields."]
            /\ request' = request
       ELSE IF ~form.preferences
       THEN /\ form' = [form EXCEPT !.toast = "Failed to create invoice"]
            /\ request' = request
       ELSE /\ form' = [form EXCEPT !.saving = TRUE]
            /\ request' = Some(createInvoicePayload(form))
    /\ UNCHANGED <<inv, totals, formTotals, pageW, doc, env, bar, db, view, list>>

\* doCreateUnpaid from the answer of createInvoice on: the invoice created
\* and the page left for the invoice's, or the error toast
createInvoiceSettles ==
    /\ form.saving
    /\ \/ form' = [form EXCEPT !.saving = FALSE, !.toast = "Invoice created",
                               !.left = TRUE]
       \/ form' = [form EXCEPT !.saving = FALSE, !.toast = "Failed to create invoice"]
    /\ request' = None
    /\ UNCHANGED <<inv, totals, formTotals, pageW, doc, env, bar, db, view, list>>

NextCreate ==
    \/ loadPreferences \/ handleSelectCustomer \/ setClientInfo \/ updateLineItem
    \/ doCreateUnpaid \/ createInvoiceSettles

SpecCreate == InitCreate /\ [][NextCreate]_vars

-----------------------------------------------------------------------------
(* Claim about the creation request, checked under SpecCreate. *)

\* C19: every create_invoice request carries exactly one of customer_id and
\* client_snapshot non-null: the customer_id, with a null snapshot, when a
\* customer was selected in the form, and the snapshot, with a null
\* customer_id, otherwise; and once a customer is selected no later edit of
\* the bill-to fields brings the form back to sending a snapshot.
C19_ExactlyOneBillToSource ==
    /\ [](request # None =>
            (Get(request).customer_id # None) # (Get(request).client_snapshot # None))
    /\ [][request' # None /\ request' # request =>
            IF form.selectedCustomer # None
            THEN /\ request'[1].customer_id = Some(Get(form.selectedCustomer).id)
                 /\ request'[1].client_snapshot = None
            ELSE /\ request'[1].customer_id = None
                 /\ request'[1].client_snapshot = Some(clientSnapshot(form.clientInfo))]_vars
    /\ [][form.selectedCustomer # None => form'.selectedCustomer # None]_vars

\* A request in flight for the selected customer c1, whose bill-to fields were
\* edited after the selection: c1 has no street, and validate() lets no
\* request go before one is typed.
C19_Witness ==
    /\ request # None /\ form.saving
    /\ Get(request).customer_id = Some("c1")
    /\ Get(request).client_snapshot = None
    /\ form.selectedCustomer # None
    /\ form.clientInfo.companyName # "Acme Ltd"
    /\ form.clientInfo.email = "ann@example.com"

\* A request in flight that carries the typed bill-to fields, no customer
\* having been selected.
C19_SnapshotSent ==
    /\ request # None /\ form.saving
    /\ form.selectedCustomer = None
    /\ Get(request).customer_id = None
    /\ Get(request).client_snapshot # None
    /\ Get(request).client_snapshot[1].company_name = Some("Acme Ltd")

-----------------------------------------------------------------------------
(* InvoiceViewPage: the load effect.  view holds the route's id (0 when the  *)
(* route has none), the four useState values and loads, the runs of the      *)
(* effect whose await has not resumed: each with its id, its cancelled flag  *)
(* and, once Promise.allSettled has settled, the two results.                *)

\* The most runs of the effect awaiting at once
MaxLoads == 2

\* Route ids; 0 is the absent id of if (!id) return
Ids == {0, 1, 2}

\* getInvoice(id): fulfilled with the invoice or with null, or rejected
InvoiceResults(id) ==
    {[status |-> "fulfilled", value |-> Some(id)],
     [status |-> "fulfilled", value |-> None],
     [status |-> "rejected", value |-> None]}

\* fetchProfile(): fulfilled with the profile, or rejected
ProfileResults ==
    {[status |-> "fulfilled", value |-> Some(SampleProfile)],
     [status |-> "rejected", value |-> None]}

RemoveAt(s, k) == [j \in 1..(Len(s) - 1) |-> IF j < k THEN s[j] ELSE s[j + 1]]

\* return () => { cancelled = true }, of the run before
cleanup(loads) == [k \in DOMAIN loads |-> [loads[k] EXCEPT !.cancelled = TRUE]]

\* What the page returns: the not-found card, the skeleton, or the invoice
pageView(v) ==
    IF ~v.loading /\ v.invoice = None THEN "not-found"
    ELSE IF v.loading \/ v.invoice = None THEN "skeleton"
    ELSE "invoice"

InitView ==
    /\ inv = SampleInvoice
    /\ form = FormOf(inv.items, inv.discount_type, inv.discount_amount)
    /\ pageW = A4W
    /\ totals = None
    /\ formTotals = None
    /\ doc = None
    /\ env = PageEnv
    /\ bar = BarOf(None)
    /\ db = None
    /\ request = None
    /\ view = UnmountedView /\ list = UnmountedList

\* The effect on [id]: the cleanup of the run before, and the new run up to
\* its await
loadEffect ==
    /\ \E id \in Ids \ {view.id} :
          /\ id # 0 => Len(view.loads) < MaxLoads
          /\ view' =
                IF id = 0
                THEN [view EXCEPT !.id = id, !.loads = cleanup(view.loads)]
                ELSE [view EXCEPT
                        !.id = id, !.loading = TRUE, !.error = "",
                        !.loads = Append(cleanup(view.loads),
                                         [id |-> id, cancelled |-> FALSE,
                                          settled |-> None])]
    /\ UNCHANGED <<inv, form, totals, formTotals, pageW, doc, env, bar, db, request, list>>

\* Promise.allSettled settles for the run k
allSettled(k) ==
    /\ view.loads[k].settled = None
    /\ \E i \in InvoiceResults(view.loads[k].id), p \in ProfileResults :
          view' = [view EXCEPT !.loads[k].settled = Some([inv |-> i, prof |-> p])]
    /\ UNCHANGED <<inv, form, totals, formTotals, pageW, doc, env, bar, db, request, list>>

\* The run k from its await on.  (a variant that does not test cancelled)
resume_IgnoresCancelled(k) ==
    /\ view.loads[k].settled # None
    /\ LET r == Get(view.loads[k].settled)
       IN  view' = [view EXCEPT
                      !.invoice = IF r.inv.status = "fulfilled" THEN r.inv.value ELSE None,
                      !.error = IF r.inv.status = "fulfilled" THEN @
                                ELSE "Failed to load invoice.",
                      !.profile = IF r.prof.status = "fulfilled" THEN r.prof.value ELSE None,
                      !.loading = FALSE,
                      !.loads = RemoveAt(view.loads, k)]
    /\ UNCHANGED <<inv, form, totals, formTotals, pageW, doc, env, bar, db, request, list>>
resume(k) ==
    /\ view.loads[k].settled # None
    /\ LET r == Get(view.loads[k].settled)
       IN  view' =
             IF view.loads[k].cancelled
             THEN [view EXCEPT !.loads = RemoveAt(view.loads, k)]
             ELSE [view EXCEPT
                      !.invoice = IF r.inv.status = "fulfilled" THEN r.inv.value ELSE None,
                      !.error = IF r.inv.status = "fulfilled" THEN @
                                ELSE "Failed to load invoice.",
                      !.profile = IF r.prof.status = "fulfilled" THEN r.prof.value ELSE None,
                      !.loading = FALSE,
                      !.loads = RemoveAt(view.loads, k)]
    /\ UNCHANGED <<inv, form, totals, formTotals, pageW, doc, env, bar, db, request, list>>

promisesSettle == \E k \in DOMAIN view.loads : allSettled(k)

loadResumes == \E k \in DOMAIN view.loads : resume(k)

NextView == loadEffect \/ promisesSettle \/ loadResumes

SpecView == InitView /\ [][NextView]_vars

-----------------------------------------------------------------------------
(* Claim about the detail page's load, checked under SpecView. *)

\* C20: when a load that was not cancelled completes, loading is false and
\* the view follows the invoice fetch alone: the invoice is displayed when
\* getInvoice returned an invoice, whether fetchProfile succeeded or failed,
\* and the not-found view when it returned none; a load whose effect was
\* cancelled changes no state of the page.
C20_ViewFollowsInvoiceFetch ==
    [][\A k \in DOMAIN view.loads : resume(k) =>
          LET r == Get(view.loads[k].settled)
          IN  IF view.loads[k].cancelled
              THEN /\ view'.loading = view.loading
                   /\ view'.invoice = view.invoice
                   /\ view'.profile = view.profile
                   /\ view'.error = view.error
              ELSE /\ ~view'.loading
                   /\ IF r.inv.status = "fulfilled" /\ r.inv.value # None
                      THEN /\ pageView(view') = "invoice"
                           /\ view'.invoice = r.inv.value
                      ELSE pageView(view') = "not-found"]_vars

\* The invoice displayed after a load whose profile fetch failed, while a
\* cancelled load of another id has yet to resume.
C20_Witness ==
    /\ pageView(view) = "invoice"
    /\ view.invoice = Some(view.id)
    /\ view.profile = None
    /\ \E k \in DOMAIN view.loads :
          view.loads[k].cancelled /\ view.loads[k].settled # None

\* The not-found view after a load that returned no invoice though the
\* profile was fetched.
C20_NotFoundShown ==
    /\ pageView(view) = "not-found"
    /\ view.profile # None
    /\ view.error = ""

-----------------------------------------------------------------------------
(* InvoicesPage: the list, its filters and its loads.  list holds the page's *)
(* useState values and loads, the requests awaited: the runs of the load     *)
(* effect (each with the cancelled flag of its closure), the calls of        *)
(* markInvoicePaid by onMarkPaid and the calls of listInvoices by load().    *)
(* rows is held as the query the rows answer and the status they show for    *)
(* the invoice of db, which is on every page it is not filtered out of.      *)
(* changes counts the changes of a filter, of the page size or of the page   *)
(* made so far, which MaxChanges bounds.                                     *)

\* The most changes of the list's parameters in a behaviour
MaxChanges == 3

SearchTexts == {"", "acme"}
StatusFilters == {"all", "paid"}
PageSizes == {10, 25}
\* The counts listInvoices answers with
ListTotals == {0, 12, 30}

\* The rows listInvoices answers for the query, with a count of total: they
\* show the status of the invoice of db unless the answer is empty or the
\* status filter leaves the invoice out.
rowsOf(query, row, total) ==
    [query |-> query,
     status |-> IF total = 0 \/ (query.status = "paid" /\ row.status # "paid")
                THEN "absent" ELSE row.status]

\* The arguments of listInvoices, from the state rendered
queryOf(l) ==
    [search |-> l.searchQuery, status |-> l.statusFilter, period |-> l.periodFilter,
     page |-> l.currentPage, pageSize |-> l.itemsPerPage]

\* Math.max(1, Math.ceil(total / itemsPerPage))
totalPages(l) == Max(1, (l.total + l.itemsPerPage - 1) \div l.itemsPerPage)

\* The cleanup of the load effect's run before
cancelEffects(loads) ==
    [k \in DOMAIN loads |->
        IF loads[k].kind = "effect" THEN [loads[k] EXCEPT !.cancelled = TRUE]
        ELSE loads[k]]

\* The load effect run on a render whose dependencies changed: the cleanup
\* of the run before, setIsLoading(true) and the call of listInvoices.
\* (a variant that leaves the run before uncancelled)
loadEffectOf_NoCleanup(l) ==
    [l EXCEPT !.isLoading = TRUE,
              !.loads = Append(l.loads,
                               [kind |-> "effect", query |-> queryOf(l),
                                cancelled |-> FALSE])]
loadEffectOf(l) ==
    [l EXCEPT !.isLoading = TRUE,
              !.loads = Append(cancelEffects(l.loads),
                               [kind |-> "effect", query |-> queryOf(l),
                                cancelled |-> FALSE])]

\* The effects after a render in which a filter or the page size changed:
\* the load effect, then the reset effect's setCurrentPage(1), which, when
\* the page was not 1, renders again and runs the load effect again.
\* (a variant without the reset effect)
filterEffectsOf_NoReset(l) == loadEffectOf(l)
filterEffectsOf(l) ==
    IF l.currentPage = 1 THEN loadEffectOf(l)
    ELSE loadEffectOf([loadEffectOf(l) EXCEPT !.currentPage = 1])

\* The page after its first render and effects
MountedInvoicesPage ==
    loadEffectOf([rows |-> None, total |-> 0, isLoading |-> TRUE,
                  searchQuery |-> "", statusFilter |-> "all",
                  periodFilter |-> "all", itemsPerPage |-> 10, currentPage |-> 1,
                  toast |-> "", changes |-> 0, loads |-> <<>>])

InitList ==
    /\ inv = SampleInvoice
    /\ form = FormOf(inv.items, inv.discount_type, inv.discount_amount)
    /\ pageW = A4W
    /\ totals = None
    /\ formTotals = None
    /\ doc = None
    /\ env = PageEnv
    /\ bar = BarOf(None)
    /\ db = Some([RowOf(inv) EXCEPT !.status = "unpaid"])
    /\ request = None
    /\ view = UnmountedView
    /\ list = MountedInvoicesPage

ListUnchanged == UNCHANGED <<inv, form, totals, formTotals, pageW, doc, env, bar, request, view>>

setSearchQuery ==
    /\ \E v \in SearchTexts \ {list.searchQuery} :
          list' = filterEffectsOf([list EXCEPT !.searchQuery = v, !.changes = @ + 1])
    /\ Len(list'.loads) <= MaxLoads /\ list'.changes <= MaxChanges
    /\ db' = db /\ ListUnchanged

setStatusFilter ==
    /\ \E v \in StatusFilters \ {list.statusFilter} :
          list' = filterEffectsOf([list EXCEPT !.statusFilter = v, !.changes = @ + 1])
    /\ Len(list'.loads) <= MaxLoads /\ list'.changes <= MaxChanges
    /\ db' = db /\ ListUnchanged

\* searchQuery.trim() !== "" || statusFilter !== "all" || periodFilter !== "all"
hasActiveFilters(l) ==
    l.searchQuery # "" \/ l.statusFilter # "all" \/ l.periodFilter # "all"

\* The Clear filters button of the empty table; nothing else calls
\* setPeriodFilter, so the period filter stays "all"
clearFilters ==
    /\ ~list.isLoading /\ list.total = 0 /\ hasActiveFilters(list)
    /\ list' = filterEffectsOf([list EXCEPT !.searchQuery = "", !.statusFilter = "all",
                                            !.periodFilter = "all", !.changes = @ + 1])
    /\ Len(list'.loads) <= MaxLoads /\ list'.changes <= MaxChanges
    /\ db' = db /\ ListUnchanged

setItemsPerPage ==
    /\ \E v \in PageSizes \ {list.itemsPerPage} :
          list' = filterEffectsOf([list EXCEPT !.itemsPerPage = v, !.changes = @ + 1])
    /\ Len(list'.loads) <= MaxLoads /\ list'.changes <= MaxChanges
    /\ db' = db /\ ListUnchanged

\* The Previous and Next buttons
setCurrentPage ==
    /\ \E p \in {Max(1, list.currentPage - 1),
                 Min(totalPages(list), list.currentPage + 1)} \ {list.currentPage} :
          list' = loadEffectOf([list EXCEPT !.currentPage = p, !.changes = @ + 1])
    /\ Len(list'.loads) <= MaxLoads /\ list'.changes <= MaxChanges
    /\ db' = db /\ ListUnchanged

\* The load effect from its await on, for the run k: listInvoices fulfilled
\* or rejected
listInvoicesSettles ==
    /\ \E k \in DOMAIN list.loads :
          /\ list.loads[k].kind = "effect"
          /\ LET run == list.loads[k]
                 rest == RemoveAt(list.loads, k)
             IN  \/ \E total \in ListTotals :
                       list' = IF run.cancelled THEN [list EXCEPT !.loads = rest]
                               ELSE [list EXCEPT
                                       !.rows = Some(rowsOf(run.query, Get(db), total)),
                                       !.total = total,
                                       !.isLoading = FALSE,
                                       !.loads = rest]
                 \/ list' = IF run.cancelled THEN [list EXCEPT !.loads = rest]
                            ELSE [list EXCEPT !.toast = "Failed to load invoices",
                                              !.isLoading = FALSE,
                                              !.loads = rest]
    /\ db' = db /\ ListUnchanged

\* onMarkPaid up to its await; the menu item is shown on a row whose status
\* is not "paid"
onMarkPaid ==
    /\ list.rows # None /\ Get(list.rows).status = "unpaid"
    /\ Len(list.loads) < MaxLoads
    /\ list' = [list EXCEPT
                  !.loads = Append(@, [kind |-> "markInvoicePaid",
                                       query |-> queryOf(list),
                                       cancelled |-> FALSE])]
    /\ db' = db /\ ListUnchanged

\* onMarkPaid from the answer of markInvoicePaid on, up to the await of
\* load(): the toast, setIsLoading(true) and listInvoices called with the
\* state of the render in which the menu item was clicked; or the error toast
markInvoicePaidSettles ==
    /\ \E k \in DOMAIN list.loads :
          /\ list.loads[k].kind = "markInvoicePaid"
          /\ \/ /\ db' = Some(markInvoicePaid(Get(db)))
                /\ list' = [list EXCEPT
                              !.toast = "Marked as paid",
                              !.isLoading = TRUE,
                              !.loads = Append(RemoveAt(list.loads, k),
                                               [list.loads[k] EXCEPT !.kind = "load"])]
             \/ /\ db' = db
                /\ list' = [list EXCEPT !.toast = "Failed to mark as paid",
                                        !.loads = RemoveAt(list.loads, k)]
    /\ ListUnchanged

\* load() from its await on: setRows, setTotal, setIsLoading(false); or the
\* rejection, caught by onMarkPaid
loadSettles ==
    /\ \E k \in DOMAIN list.loads :
          /\ list.loads[k].kind = "load"
          /\ \/ \E total \in ListTotals :
                   list' = [list EXCEPT
                              !.rows = Some(rowsOf(list.loads[k].query, Get(db), total)),
                              !.total = total,
                              !.isLoading = FALSE,
                              !.loads = RemoveAt(list.loads, k)]
             \/ list' = [list EXCEPT !.toast = "Failed to mark as paid",
                                     !.loads = RemoveAt(list.loads, k)]
    /\ db' = db /\ ListUnchanged

NextList ==
    \/ setSearchQuery \/ setStatusFilter \/ clearFilters \/ setItemsPerPage
    \/ setCurrentPage
    \/ listInvoicesSettles
    \/ onMarkPaid \/ markInvoicePaidSettles \/ loadSettles

SpecList == InitList /\ [][NextList]_vars

-----------------------------------------------------------------------------
(* Claim about the loads of the invoices list, checked under SpecList. *)

FiltersOf(l) == <<l.searchQuery, l.statusFilter, l.periodFilter, l.itemsPerPage>>

LoadFailed(l) == l.toast \in {"Failed to load invoices", "Failed to mark as paid"}

\* C21: whenever the search text, the status filter, the period filter or the
\* page size changes, the current page becomes 1; the response of a load
\* superseded by a later change of the parameters is never applied; and once
\* all pending loads have settled the rows displayed are those returned for
\* page 1 of the new filters (for the parameters as they are now, no load
\* having failed).
C21_LatestLoadWins ==
    /\ [][FiltersOf(list') # FiltersOf(list) => list'.currentPage = 1]_vars
    /\ [][list'.rows # list.rows => Get(list'.rows).query = queryOf(list)]_vars
    /\ []((list.loads = <<>> /\ ~LoadFailed(list)) =>
            (list.rows # None /\ Get(list.rows).query = queryOf(list)))

\* What does hold: the parts of C21 of the load effect alone, which tests
\* the cancelled flag of its run.
C21_EffectLoadsLatestWins ==
    /\ [][FiltersOf(list') # FiltersOf(list) => list'.currentPage = 1]_vars
    /\ [][listInvoicesSettles /\ list'.rows # list.rows =>
             Get(list'.rows).query = queryOf(list)]_vars

\* The state that refutes C21: every load settled and none failed, the rows
\* displayed answer a search text that is no longer the one in the box.
C21_StaleRowsDisplayed ==
    /\ list.loads = <<>> /\ ~LoadFailed(list) /\ ~list.isLoading
    /\ list.rows # None
    /\ Get(list.rows).query.search # list.searchQuery

-----------------------------------------------------------------------------
(* listInvoices: the total of a row of the list, beside the totals of the    *)
(* detail view and the PDF.  Under SpecListTotal list.rows is the row of     *)
(* the invoice inv, with its total in 1/UNIT.                                *)

\* items.reduce((sum, it) => sum + line + line * (tax_percent / 100), 0)
RECURSIVE computeItemsTotal(_)
computeItemsTotal(items) ==
    IF items = <<>> THEN 0
    ELSE computeItemsTotal(SubSeq(items, 1, Len(items) - 1))
         + LineOf(items[Len(items)])
         + (LineOf(items[Len(items)]) * items[Len(items)].tax_percent) \div 100

\* The row listInvoices maps the invoice to: invoice_items is selected,
\* discount_type and discount_amount are not.
listInvoices ==
    /\ list' = [list EXCEPT
                  !.rows = Some([status |-> inv.status,
                                 total |-> computeItemsTotal(inv.items)]),
                  !.total = 1, !.isLoading = FALSE]
    /\ UNCHANGED <<inv, form, totals, formTotals, pageW, doc, env, bar, db, request, view>>

NextListTotal == ComputeTotals \/ listInvoices

SpecListTotal == InitTotals /\ [][NextListTotal]_vars

\* C22: for every invoice, the total shown in the invoice list equals the
\* total of computeTotals, which the detail view and the PDF show, for the
\* same stored items and discount.
C22_ListTotalEqualsDetailTotal ==
    (list.rows # None /\ totals # None) =>
        Get(list.rows).total = Get(totals).total

\* What does hold: the list shows subtotal + tax, the total before the
\* discount, and so the total of computeTotals when the discount is 0.
C22_ListTotalIgnoresDiscount ==
    (list.rows # None /\ totals # None) =>
        /\ Get(list.rows).total = Get(totals).subtotal + Get(totals).taxTotal
        /\ Get(totals).discount = 0 => Get(list.rows).total = Get(totals).total

\* The state that refutes C22: 2 x 50 at 10% tax less 10.00, listed as
\* 110.00 and detailed as 100.00.
C22_ListShowsUndiscounted ==
    /\ list.rows # None /\ totals # None
    /\ inv.items = <<[quantity |-> 2, unit_price |-> 50, tax_percent |-> 10]>>
    /\ inv.discount_type = "value" /\ inv.discount_amount = 10 * CENT
    /\ Get(list.rows).total = 110 * UNIT
    /\ Get(totals).total = 100 * UNIT

-----------------------------------------------------------------------------
(* Claim about the sender name of the header band, checked under SpecFrom. *)

\* C23: for every invoice, profile and branding, the sender name drawn in
\* the header band of the PDF equals the first line of the From block made
\* by buildFromLines and, when the branding supplies no company name, the
\* sender name shown on the detail page.
C23_HeaderNameIsFromName ==
    doc # None =>
        /\ Get(doc).senderName = Get(doc).fromLines[1].text
        /\ env.branding.companyName = "" =>
              fromName(inv, env.profile) = Get(doc).senderName

\* What does hold: the three names agree whenever the snapshot's type is not
\* company or its company_name is not empty, but for the page's missing
\* default.
C23_NamesAgreeButForEmptyCompany ==
    (doc # None
       /\ ~(inv.from_snapshot.type = "company" /\ inv.from_snapshot.company_name = "")) =>
        /\ Get(doc).senderName = Get(doc).fromLines[1].text
        /\ (env.branding.companyName = "" /\ fromName(inv, env.profile) # "") =>
              fromName(inv, env.profile) = Get(doc).senderName

\* The state that refutes C23: a snapshot of type company without a company
\* name and a company profile named Acme Ltd; the header says Your Company,
\* the From block Acme Ltd.
C23_HeaderSaysYourCompany ==
    /\ doc # None
    /\ inv.from_snapshot.type = "company" /\ inv.from_snapshot.company_name = ""
    /\ Get(doc).senderName = "Your Company"
    /\ Get(doc).fromLines[1].text = "Acme Ltd"
    /\ fromName(inv, env.profile) = ""

-----------------------------------------------------------------------------
(* Claims about the status the detail page holds, checked under SpecPayments. *)

PaymentUpdated == updatePaymentSettles /\ bar'.toast.title = "Payment updated"

\* C24: after a successful Update Payment the status of the invoice in the
\* detail page's state equals the status that was persisted: a part payment
\* (amount_paid < total) leaves the page showing "unpaid", and only a full
\* payment makes it show "paid".
C24_LocalStatusIsPersistedStatus ==
    [][PaymentUpdated => inv'.status = db'[1].status]_vars

\* What does hold: after a successful Update Payment the page shows "paid",
\* whatever was persisted; the two agree for a full payment.
C24_LocalStatusAlwaysPaid ==
    [][PaymentUpdated =>
          /\ inv'.status = "paid"
          /\ db'[1].amount_paid >= totalOf(inv) => db'[1].status = inv'.status]_vars

\* The state that refutes C24: 40.00 of 110.00 persisted as unpaid, the page
\* showing paid.
C24_PartPaymentShownPaid ==
    /\ bar.toast.title = "Payment updated"
    /\ totalOf(inv) = 110 * CENT
    /\ Get(db).amount_paid = 40 * CENT /\ Get(db).status = "unpaid"
    /\ inv.status = "paid"

-----------------------------------------------------------------------------
(* One browser session with the invoices list and the detail page of one of  *)
(* its invoices open side by side: the actions of the action bar, and of     *)
(* the list its first load and Mark as Paid.  Both pages know the status as  *)
(* of their last load.                                                       *)

InitSession ==
    /\ inv = [InvoiceOf(<<SampleRow>>, "value", 0) EXCEPT !.status = "unpaid"]
    /\ form = FormOf(inv.items, inv.discount_type, inv.discount_amount)
    /\ pageW = A4W
    /\ totals = None
    /\ formTotals = None
    /\ doc = None
    /\ env = PageEnv
    /\ bar = BarOf(Some(inv))
    /\ db = Some(RowOf(inv))
    /\ request = None
    /\ view = UnmountedView
    /\ list = MountedInvoicesPage

NextSession ==
    \/ openPaymentDialog \/ closePaymentDialog
    \/ changePaymentMethod \/ changeAmountPaid
    \/ handleUpdatePayment \/ updatePaymentSettles
    \/ handleMarkAsPaid \/ markAsPaidSettles
    \/ loadInvoice
    \/ listInvoicesSettles
    \/ onMarkPaid \/ markInvoicePaidSettles \/ loadSettles

SpecSession == InitSession /\ [][NextSession]_vars

\* C25: within one browser session, once the persisted status of an invoice
\* is "paid" no sequence of actions of the list and of the detail page sets
\* it back to "unpaid"; the actions that can change the status are offered
\* only while the status the page knows is not "paid".
C25_PaidStaysPaid ==
    /\ [][Get(db).status = "paid" => db'[1].status = "paid"]_vars
    /\ [][(openPaymentDialog \/ handleUpdatePayment \/ handleMarkAsPaid) =>
             inv.status # "paid"]_vars
    /\ [][onMarkPaid => Get(list.rows).status # "paid"]_vars

\* What does hold in the session: the actions that change the status are
\* offered only while the page that offers them knows a status other than
\* paid.
C25_OfferedWhileNotKnownPaid ==
    /\ [][(openPaymentDialog \/ handleUpdatePayment \/ handleMarkAsPaid) =>
             inv.status # "paid"]_vars
    /\ [][onMarkPaid => Get(list.rows).status # "paid"]_vars

\* What does hold with the detail page alone (SpecPayments): paid stays
\* paid.
C25_PaidStaysPaidOnOnePage ==
    [][Get(db).status = "paid" => db'[1].status = "paid"]_vars

\* The state that refutes C25: the row was marked paid from the list, and
\* the detail page, which loaded it before, has persisted a part payment of
\* 40.00 and with it the status unpaid.
C25_PaidRowUnpaidAgain ==
    /\ list.toast = "Marked as paid"
    /\ bar.toast.title = "Payment updated"
    /\ Get(db).status = "unpaid" /\ Get(db).amount_paid = 40 * CENT


-----------------------------------------------------------------------------
(* The action bar of the invoice page with its four handlers: Download PDF,
   Print, Mark as Paid and Update Payment (SpecBar).  The page passes the
   invoice and the profile; the logo is an image or bytes doc.addImage
   rejects, so that the PDF handlers end both ways. *)

BarEnvs == {[PageEnv EXCEPT !.logo = logo] : logo \in {"image", "undecodable"}}

InitBar ==
    /\ inv = InvoiceOf(<<SampleRow>>, "value", 0)
    /\ form = FormOf(inv.items, inv.discount_type, inv.discount_amount)
    /\ pageW = A4W
    /\ totals = None
    /\ formTotals = None
    /\ doc = None
    /\ env \in BarEnvs
    /\ bar = BarOf(Some(inv))
    /\ db = Some(RowOf(inv))
    /\ request = None
    /\ view = UnmountedView /\ list = UnmountedList

NextBar ==
    \/ enterDownloadPDF \/ handleDownloadPDF
    \/ enterPrintPDF \/ handlePrintPDF
    \/ openPaymentDialog \/ closePaymentDialog
    \/ changePaymentMethod \/ changeAmountPaid
    \/ handleUpdatePayment \/ updatePaymentSettles
    \/ handleMarkAsPaid \/ markAsPaidSettles
    \/ loadInvoice

SpecBar == InitBar /\ [][NextBar]_vars

\* What a handler leaves behind: the request it sent, the row it wrote, the
\* document it produced, its toast and the status it set.  (The dialog is left
\* out: the user may close it while Update Payment is in flight.)
EffectsOfHandlers ==
    <<bar.running, bar.toast, bar.amountPaidError, request, db, doc, inv>>

\* C26: at most one of download, print, mark-as-paid and update-payment is in
\* flight at any time and busy is true exactly while one is; while busy is
\* true no step starts a handler or has any of a handler's effects other than
\* the end of the one in flight; and the end of a handler, by success or by
\* failure, leaves busy false.
C26_OneActionInFlight ==
    /\ [](/\ bar.inFlight <= 1
          /\ bar.busy <=> bar.inFlight = 1
          /\ bar.busy <=> bar.running # "")
    /\ [][bar.busy => \/ bar'.inFlight < bar.inFlight
                      \/ /\ bar'.inFlight = bar.inFlight
                         /\ EffectsOfHandlers' = EffectsOfHandlers]_vars
    /\ [][bar'.inFlight < bar.inFlight => ~bar'.busy /\ bar'.toast.title # ""]_vars

\* Mark as Paid is in flight after a PDF handler failed and was run again or
\* another produced a document.
C26_Witness ==
    /\ bar.busy /\ bar.running = "markPaid"
    /\ bar.toast.title \in {"PDF Error", "PDF Downloaded", "Opening print dialog"}

-----------------------------------------------------------------------------
(* The customers page (SpecCustomers).  list holds the state of the page and
   the requests in flight; db holds whether the newest customer, an Acme
   company, is active.  The other customers do not change: eleven active, of
   which three match "acme", and three inactive, of which one matches. *)

CustomerSearches == {"", "acme"}
CustomerPageSizes == {5, 10}
OtherCustomers == [active |-> 11, inactive |-> 3, acmeActive |-> 3, acmeInactive |-> 1]

\* The options the page passes to listCustomers
customersQueryOf(l) ==
    [search |-> l.searchQuery, includeInactive |-> l.includeInactive,
     page |-> l.page, pageSize |-> l.pageSize]

\* listCustomers(opts) on the table d: the rows from..to of the customers that
\* pass the is_active and the ilike filters, newest first, with their exact
\* count.  The rows are told by the filters, the first index and their
\* number, and by the is_active of the newest customer when it is among them.
listCustomers(opts, d) ==
    LET page == Max(1, opts.page)
        pageSize == Max(1, opts.pageSize)
        from == (page - 1) * pageSize
        to == from + pageSize - 1
        term == trim(opts.search)
        newest == IF opts.includeInactive \/ d.cActive THEN 1 ELSE 0
        active == IF term # "" THEN OtherCustomers.acmeActive ELSE OtherCustomers.active
        inactive == IF term # "" THEN OtherCustomers.acmeInactive
                    ELSE OtherCustomers.inactive
        count == newest + active + IF opts.includeInactive THEN inactive ELSE 0
    IN  [rows |-> [search |-> term, includeInactive |-> opts.includeInactive,
                   from |-> from,
                   length |-> Max(0, Min(to, count - 1) - from + 1),
                   newest |-> IF newest = 1 /\ from = 0 THEN Some(d.cActive) ELSE None],
         total |-> count]

\* const pages = Math.max(1, Math.ceil(total / pageSize))
pages(l) == Max(1, (l.total + l.pageSize - 1) \div l.pageSize)

\* The load effect up to its await: setLoading(true) and the request
customersLoadEffect(l) ==
    [l EXCEPT !.loading = TRUE,
              !.loads = Append(@, [kind |-> "effect", query |-> customersQueryOf(l)])]

\* The effects after a render in which searchQuery, includeInactive or
\* pageSize changed: the load effect, then setPage(1), and the load effect
\* again when that changed the page
customersFilterEffects(l) ==
    IF l.page = 1 THEN customersLoadEffect(l)
    ELSE customersLoadEffect([customersLoadEffect(l) EXCEPT !.page = 1])

\* The page after its first render and effects
MountedCustomersPage ==
    customersLoadEffect([customers |-> None, total |-> 0, loading |-> TRUE,
                         searchQuery |-> "", includeInactive |-> FALSE,
                         page |-> 1, pageSize |-> 10,
                         toast |-> "", failed |-> FALSE, changes |-> 0,
                         loads |-> <<>>])

InitCustomers ==
    /\ inv = SampleInvoice
    /\ form = FormOf(inv.items, inv.discount_type, inv.discount_amount)
    /\ pageW = A4W
    /\ totals = None
    /\ formTotals = None
    /\ doc = None
    /\ env = PageEnv
    /\ bar = BarOf(None)
    /\ db = [cActive |-> TRUE]
    /\ request = None
    /\ view = UnmountedView
    /\ list = MountedCustomersPage

CustomersUnchanged ==
    UNCHANGED <<inv, form, totals, formTotals, pageW, doc, env, bar, request, view>>

\* A change of the filters l leads to, within the bounds of the model.  The
\* search box, the checkbox, the page size and the pagination footer are
\* replaced by skeletons while loading is true.
changeTo(l) ==
    /\ ~list.loading
    /\ list.changes < MaxChanges
    /\ Len(l.loads) <= MaxLoads
    /\ list' = [l EXCEPT !.changes = @ + 1]
    /\ db' = db /\ CustomersUnchanged

\* onChange of the search box
setCustomerSearch ==
    \E s \in CustomerSearches \ {list.searchQuery} :
        changeTo(customersFilterEffects([list EXCEPT !.searchQuery = s]))

\* onChange of the Include inactive checkbox
setIncludeInactive ==
    \E checked \in BOOLEAN \ {list.includeInactive} :
        changeTo(customersFilterEffects([list EXCEPT !.includeInactive = checked]))

\* onChange of the page size select
setPageSize ==
    \E n \in CustomerPageSizes \ {list.pageSize} :
        changeTo(customersFilterEffects([list EXCEPT !.pageSize = n]))

\* Previous and Next
setPage ==
    \E p \in {Max(1, list.page - 1), Min(pages(list), list.page + 1)} \ {list.page} :
        changeTo(customersLoadEffect([list EXCEPT !.page = p]))

\* The load effect from its await on, and reload from its await on, for the
\* request k: listCustomers fulfilled or rejected.  The effect has no cleanup;
\* reload is awaited inside the try of handleToggleActive.
listCustomersSettles ==
    /\ \E k \in DOMAIN list.loads :
          /\ list.loads[k].kind \in {"effect", "reload"}
          /\ LET run == list.loads[k]
                 rest == RemoveAt(list.loads, k)
                 answer == listCustomers(run.query, db)
                 loading == IF run.kind = "effect" THEN FALSE ELSE list.loading
             IN  \/ list' = [list EXCEPT !.customers = Some(answer.rows),
                                         !.total = answer.total,
                                         !.loading = loading,
                                         !.loads = rest]
                 \/ list' = [list EXCEPT
                               !.toast = IF run.kind = "effect"
                                         THEN "Failed to load customers"
                                         ELSE "Update failed",
                               !.failed = TRUE,
                               !.loading = loading,
                               !.loads = rest]
    /\ db' = db /\ CustomersUnchanged

\* handleToggleActive(c) up to its first await, for the newest customer as
\* the table shows it; the table is replaced by a skeleton while loading
handleToggleActive ==
    /\ ~list.loading
    /\ list.customers # None /\ Get(list.customers).newest # None
    /\ list.changes < MaxChanges
    /\ Len(list.loads) < MaxLoads
    /\ list' = [list EXCEPT
                  !.changes = @ + 1,
                  !.loads = Append(@, [kind |-> "setCustomerActive",
                                       query |-> customersQueryOf(list),
                                       active |-> ~Get(Get(list.customers).newest)])]
    /\ db' = db /\ CustomersUnchanged

\* handleToggleActive from its first await to its second: setCustomerActive
\* fulfilled (the toast, then reload with the parameters of the render the
\* handler was made in) or rejected
setCustomerActiveSettles ==
    \E k \in DOMAIN list.loads :
        /\ list.loads[k].kind = "setCustomerActive"
        /\ LET run == list.loads[k]
               rest == RemoveAt(list.loads, k)
           IN  \/ /\ db' = [db EXCEPT !.cActive = run.active]
                  /\ list' = [list EXCEPT
                                !.toast = IF run.active THEN "Customer activated"
                                          ELSE "Customer set inactive",
                                !.loads = Append(rest, [kind |-> "reload",
                                                        query |-> run.query])]
               \/ /\ db' = db
                  /\ list' = [list EXCEPT !.toast = "Update failed",
                                          !.failed = TRUE,
                                          !.loads = rest]
        /\ CustomersUnchanged

NextCustomers ==
    \/ setCustomerSearch \/ setIncludeInactive \/ setPageSize \/ setPage
    \/ listCustomersSettles
    \/ handleToggleActive \/ setCustomerActiveSettles

SpecCustomers == InitCustomers /\ [][NextCustomers]_vars

-----------------------------------------------------------------------------
(* Claims about the customers page (SpecCustomers). *)

\* What listCustomers answers for the parameters of the page as they are
CustomersNow == listCustomers(customersQueryOf(list), db)

\* C27: once every list request has completed, none of them having failed,
\* the customers and the total displayed are the response to the parameters
\* of the page as they are: a response to an earlier request has not
\* overwritten a later one.
C27_LatestResponseDisplayed ==
    (list.loads = <<>> /\ ~list.failed)
        => /\ list.customers = Some(CustomersNow.rows)
           /\ list.total = CustomersNow.total

\* Only parameters were changed, every request was fulfilled, and the table
\* shows the rows of a later page while page 1 is selected.
C27_StaleCustomersDisplayed ==
    /\ list.loads = <<>> /\ list.toast = ""
    /\ list.page = 1
    /\ list.customers # None /\ Get(list.customers).from > 0
====
